---- MODULE Spec2Model ----
(***************************************************************************)
(* Schedule normalisation and weekly-capacity aggregation of capaStudy.    *)
(*                                                                         *)
(*   demo_v3.py            business-week calendar (week_no_for_date,       *)
(*                         build_week_columns)                             *)
(*   CSL FETCH/CSL_FETCH.py   COSCO voyage-code normalisation, westbound   *)
(*                         slicing and parse_tables                        *)
(*   MSK FETCH/MSK_FETCH.py   Maersk parse_voyage_rows / parse_leg_rows    *)
(*                                                                         *)
(* Python values are modelled as follows.  A str is a sequence of          *)
(* one-character strings; None is the distinguished value None below; a    *)
(* datetime.date is a record [year, month, day]; a dict is a record and a  *)
(* list is a sequence.                                                     *)
(***************************************************************************)
EXTENDS Integers, Sequences, FiniteSets, TLC

VARIABLES
    pc,             \* position of the running script
    d,              \* week_no_for_date: the date of the row being bucketed
    week_no,        \* week_no_for_date: its result
    prev_d,         \* the date of the row bucketed before it
    prev_week_no,   \* and its week number
    today,          \* main: dt.date.today()
    start_week_no,  \* main: current_week_no(today)
    weeks_ahead,    \* build_week_columns: number of columns asked for
    i,              \* build_week_columns: loop index
    wn,             \* build_week_columns: week number of the last column built
    wk_start,       \* build_week_columns: first day of that week
    wk_end,         \* build_week_columns: last day of that week
    cols,           \* build_week_columns: labels built so far
    voyage,         \* extract_westbound_voyage: its argument
    westbound,      \* extract_westbound_voyage: its result
    calls,          \* slice_westbound_calls: the calls of one voyage group
    service_rule,   \* slice_westbound_calls: the group's rule, or NoRule
    westbound_calls,\* slice_westbound_calls: its result
    response_json,  \* COSCO parse_tables: the response body
    rules_table,    \* COSCO: rows of csl_service_start_end.xlsx
    voyage_rows,    \* COSCO parse_tables: first result
    port_call_rows, \* COSCO parse_tables: second result
    raised,         \* COSCO parse_tables: the exception it raised, or "none"
    msk_response,   \* Maersk: the response body
    msk_voyage_rows,\* Maersk parse_voyage_rows: its result
    msk_leg_rows,   \* Maersk parse_leg_rows: its result
    msk_raised,     \* Maersk: the exception a parser raised, or "none"
    msc_response,   \* MSC: the response body
    msc_voyage_rows,\* MSC parse_voyage_rows: its result
    msc_raised,     \* MSC parse_voyage_rows: the exception it raised, or "none"
    key_df,         \* make_unique_key: its argument
    row_keys,       \* make_unique_key: its result
    routes_df,      \* main: the roster load_routes returned
    site,           \* the result pages the site shows for the query of each route
    route_idx,      \* main: position of the route loop in routes_df
    site_page,      \* the page the site is showing (#txtnowpage)
    seen_row_keys,  \* fetch_all_pages: keys of the rows kept so far
    dfs,            \* fetch_all_pages: the pages read so far
    all_details,    \* main: the results of the queries so far
    detail_df,      \* main: the merged rows
    g_cap,          \* summarize_capacity: capacity summed by (ID, week_idx)
    g_pos,          \* summarize_capacity: position of the write-back loop in g_cap
    out,            \* summarize_capacity: the table routes_df.copy() created
    out_ref,        \* summarize_capacity: the table its name "out" refers to
    result_df,      \* main: the matrix summarize_capacity returned
    prev_result_df, \* the matrix the call before that one returned
    summaries,      \* number of calls of summarize_capacity that returned
    consortium_df,  \* main: the ByConsortium table
    sum_raised,     \* the exception summarize_capacity raised, or "none"
    template_df,    \* load_routes: the sheet pd.read_excel returned
    load_raised,    \* load_routes: the exception it raised, or "none"
    ez_start,       \* EZOcean main: parse_date(START_DATE), NoDate for None
    ez_end,         \* EZOcean main: parse_date(END_DATE), NoDate for None
    gen_at,         \* iter_week_chunks: where the generator is suspended
    gen_cur,        \* iter_week_chunks: cur, the first day of the chunk to come
    chunks,         \* the chunks the generator has yielded so far
    ez_raised,      \* EZOcean: the exception that ended the run, or "none"
    site_filter,    \* the DATE FROM / DATE TO filter the site is showing results for
    site_pages,     \* number of result pages the site has for a query
    pagination_info,\* the page has a "Showing a to b of n rows" line
    now_page,       \* the page the site is showing (#txtnowpage)
    max_pages,      \* MAX_PAGES of the environment
    ez_current_page,\* scrape_current_query: current_page, the page collected last
    pages_collected,\* scrape_current_query: pages collected so far
    page_log,       \* the page numbers of the pages collected, in order
    all_rows,       \* scrape_current_query: the rows collected so far
    chunk,          \* EZOcean main: (chunk_start, chunk_end) of the loop
    applied,        \* EZOcean main: what set_date_range_filters returned
    merged_rows,    \* EZOcean main: the rows of all chunks
    argv,           \* COSCO: sys.argv[1], None when absent
    target_service, \* COSCO main: service_code = get_target_service()
    browser,        \* COSCO fetch_response_json: "none", "launched" or "closed"
    cos_step,       \* COSCO fetch_response_json: step of the try block to run next
    pending,        \* COSCO fetch_response_json: the exception being handled, or "none"
    captured,       \* COSCO fetch_response_json: its local response_json
    parse_invoked,  \* COSCO: parse_tables has been called
    workbook,       \* COSCO: the output workbook has been written
    cos_raised      \* COSCO: the exception that left main, or "none"

calVars == <<d, week_no, prev_d, prev_week_no>>
colVars == <<today, start_week_no, weeks_ahead, i, wn, wk_start, wk_end, cols>>
voyVars == <<voyage, westbound>>
sliceVars == <<calls, service_rule, westbound_calls>>
tabVars == <<response_json, rules_table, voyage_rows, port_call_rows, raised>>
mskVars == <<msk_response, msk_voyage_rows, msk_leg_rows, msk_raised>>
mscVars == <<msc_response, msc_voyage_rows, msc_raised>>

\* the variables of the scripts modelled further down
keyVars == <<key_df, row_keys>>
fetchVars == <<routes_df, site, route_idx, site_page, seen_row_keys, dfs, all_details,
               detail_df>>
sumVars == <<g_cap, g_pos, out, out_ref, result_df, prev_result_df, summaries,
             consortium_df, sum_raised>>
rosterVars == <<template_df, load_raised>>
genVars == <<ez_start, ez_end, gen_at, gen_cur, chunks, ez_raised>>
scrapeVars == <<site_filter, site_pages, pagination_info, now_page, max_pages, ez_current_page,
                pages_collected, page_log, all_rows>>
ezMainVars == <<chunk, applied, merged_rows>>
ezVars == <<genVars, scrapeVars, ezMainVars>>
cosVars == <<argv, target_service, browser, cos_step, pending, captured, parse_invoked,
            workbook, cos_raised>>
moreVars == <<rosterVars, ezVars, cosVars>>
restVars == <<mscVars, keyVars, fetchVars, sumVars, moreVars>>

\* what the parsers of the carriers' responses leave alone
tableFrame == <<keyVars, fetchVars, sumVars, moreVars>>

vars == <<pc, calVars, colVars, voyVars, sliceVars, tabVars, mskVars, restVars>>

\* what the actions of one script leave alone: the variables of the others
cslFrame == <<voyVars, sliceVars, tabVars>>
demoFrame == <<cslFrame, mskVars, restVars>>

(***************************************************************************)
(* Bounds of the model.                                                    *)
(***************************************************************************)
MonthsBefore == 1       \* months of dates before the month of WEEK1_START
MonthsAfter == 1        \* months of dates after the month of WEEK1_START
MaxWeeksAhead == 4      \* largest number of week columns asked for
MaxVoyageLen == 4       \* longest raw voyage string
MaxCalls == 5           \* most port calls in one voyage group
MaxRows == 3            \* most records in one COSCO response
MaxRoutings == 2        \* most routings in one Maersk response
MaxLegs == 3            \* most routing legs in one Maersk routing
MaxSailings == 2        \* most sailings in one MSC response
MaxRoutes == 2          \* most routes of one MSC sailing
MaxKeyRows == 2         \* most rows of the table make_unique_key is given
MaxFetched == 3         \* most rows the site shows over all queries of a run
MaxPages == 2           \* most result pages of one query
MaxVisits == 3          \* most pages fetch_all_pages reads in one call
MaxDetailRows == 3      \* most scraped rows summarize_capacity is given
MaxWindow == 2          \* number of week columns of the matrix
MaxSummaries == 2       \* calls of summarize_capacity with the same arguments
MaxSheetRows == 3       \* most rows of the sheet load_routes reads
MaxChunkSpan == 16      \* days after the first date iter_week_chunks is given
MaxEzPages == 4         \* most result pages of an EZOcean query
MaxPageLimit == 3       \* largest MAX_PAGES
MaxMainPages == 2       \* most result pages of a query in the chunk loop

(***************************************************************************)
(* Python values.                                                          *)
(***************************************************************************)
None == <<"<None>">>

Digits == <<"0", "1", "2", "3", "4", "5", "6", "7", "8", "9">>

RECURSIVE NatStr(_)
NatStr(n) == IF n < 10 THEN <<Digits[n + 1]>>
             ELSE NatStr(n \div 10) \o <<Digits[(n % 10) + 1]>>

\* str(n) / f"{n}" of an int
IntStr(n) == IF n < 0 THEN <<"-">> \o NatStr(-n) ELSE NatStr(n)

\* f"{n:02d}" of a non-negative int
Fmt02(n) == IF n < 10 THEN <<"0">> \o NatStr(n) ELSE NatStr(n)

(***************************************************************************)
(* datetime.date: proleptic Gregorian ordinals, as CPython computes them.  *)
(***************************************************************************)
IsLeap(y) == y % 4 = 0 /\ (y % 100 # 0 \/ y % 400 = 0)

DaysInMonth(y, m) ==
    IF m = 2 THEN (IF IsLeap(y) THEN 29 ELSE 28)
    ELSE IF m \in {4, 6, 9, 11} THEN 30 ELSE 31

DaysBeforeYear(y) ==
    (y - 1) * 365 + ((y - 1) \div 4) - ((y - 1) \div 100) + ((y - 1) \div 400)

RECURSIVE DaysBeforeMonth(_, _)
DaysBeforeMonth(y, m) ==
    IF m = 1 THEN 0 ELSE DaysBeforeMonth(y, m - 1) + DaysInMonth(y, m - 1)

\* date.toordinal()
ToOrdinal(dt) == DaysBeforeYear(dt.year) + DaysBeforeMonth(dt.year, dt.month) + dt.day

\* date.fromordinal(n), following datetime._ord2ymd
FromOrdinal(n) ==
    LET n0    == n - 1
        n400  == n0 \div 146097
        r400  == n0 % 146097
        n100  == r400 \div 36524
        r100  == r400 % 36524
        n4    == r100 \div 1461
        r4    == r100 % 1461
        n1    == r4 \div 365
        r1    == r4 % 365
        y     == n400 * 400 + 1 + n100 * 100 + n4 * 4 + n1
        leap  == n1 = 3 /\ (n4 # 24 \/ n100 = 3)
        mEst  == (r1 + 50) \div 32
        befEst == DaysBeforeMonth(IF leap THEN 2000 ELSE 2001, mEst)
        m     == IF befEst > r1 THEN mEst - 1 ELSE mEst
        bef   == DaysBeforeMonth(IF leap THEN 2000 ELSE 2001, m)
    IN  IF n1 = 4 \/ n100 = 4
        THEN [year |-> y - 1, month |-> 12, day |-> 31]
        ELSE [year |-> y, month |-> m, day |-> r1 - bef + 1]

\* (a - b).days
DateDiffDays(a, b) == ToOrdinal(a) - ToOrdinal(b)

\* a + dt.timedelta(days = n)
DatePlusDays(a, n) == FromOrdinal(ToOrdinal(a) + n)

\* date.weekday(): Monday is 0 ... Sunday is 6
Weekday(dt) == (ToOrdinal(dt) + 6) % 7

(***************************************************************************)
(* demo_v3.py: the business-week calendar.                                 *)
(***************************************************************************)
WEEK1_START_Sunday == [year |-> 2026, month |-> 1, day |-> 4]

WEEK1_START == [year |-> 2026, month |-> 1, day |-> 3]

week_no_for_date_trunc(dt) ==
    LET delta == DateDiffDays(dt, WEEK1_START)
    IN  (IF delta < 0 THEN -((-delta) \div 7) ELSE delta \div 7) + 1

week_no_for_date(dt) ==
    LET delta == DateDiffDays(dt, WEEK1_START)
    IN  (delta \div 7) + 1

current_week_no(dt) == week_no_for_date(dt)

week_start_date_off_by_one(w) == DatePlusDays(WEEK1_START, w * 7)

\* wk_start of build_week_columns
week_start_date(w) == DatePlusDays(WEEK1_START, (w - 1) * 7)

\* wk_end of build_week_columns
week_end_date(start) == DatePlusDays(start, 6)

\* f"W{wn}({wk_start.month:02d}.{wk_start.day:02d}-{wk_end.month:02d}.{wk_end.day:02d})"
week_label(w, start, end) ==
    <<"W">> \o IntStr(w) \o <<"(">> \o Fmt02(start.month) \o <<".">> \o Fmt02(start.day)
        \o <<"-">> \o Fmt02(end.month) \o <<".">> \o Fmt02(end.day) \o <<")">>

(***************************************************************************)
(* Python str operations on sequences of characters.                       *)
(***************************************************************************)
LowerLetters == <<"a", "b", "c", "d", "e", "f", "g", "h", "i", "j", "k", "l", "m",
                  "n", "o", "p", "q", "r", "s", "t", "u", "v", "w", "x", "y", "z">>

UpperLetters == <<"A", "B", "C", "D", "E", "F", "G", "H", "I", "J", "K", "L", "M",
                  "N", "O", "P", "Q", "R", "S", "T", "U", "V", "W", "X", "Y", "Z">>

UpperChar(c) ==
    IF \E k \in 1..Len(LowerLetters) : LowerLetters[k] = c
    THEN UpperLetters[CHOOSE k \in 1..Len(LowerLetters) : LowerLetters[k] = c]
    ELSE c

\* s.upper()
Upper(s) == [k \in 1..Len(s) |-> UpperChar(s[k])]

IsSpace(c) == c \in {" ", "\t"}

RECURSIVE LStrip(_)
LStrip(s) == IF s # <<>> /\ IsSpace(s[1]) THEN LStrip(Tail(s)) ELSE s

RECURSIVE RStrip(_)
RStrip(s) == IF s # <<>> /\ IsSpace(s[Len(s)]) THEN RStrip(SubSeq(s, 1, Len(s) - 1)) ELSE s

\* s.strip()
Strip(s) == RStrip(LStrip(s))

\* s.endswith(c) for a single character c
EndsWith(s, c) == s # <<>> /\ s[Len(s)] = c

\* s.split(sep) for a single character sep: the parts between the separators
RECURSIVE SplitFrom(_, _, _)
SplitFrom(s, sep, cur) ==
    IF s = <<>> THEN <<cur>>
    ELSE IF s[1] = sep THEN <<cur>> \o SplitFrom(Tail(s), sep, <<>>)
    ELSE SplitFrom(Tail(s), sep, Append(cur, s[1]))

Split(s, sep) == SplitFrom(s, sep, <<>>)

(***************************************************************************)
(* CSL_FETCH.py: port-name and voyage-code normalisation.                  *)
(***************************************************************************)
normalize_port_name(name) == IF name # None THEN Upper(Strip(name)) ELSE <<>>

\* the "for part in text.split('/')" loop of extract_westbound_voyage
RECURSIVE FirstWestboundPart(_, _)
FirstWestboundPart(parts, fallback) ==
    IF parts = <<>> THEN fallback
    ELSE LET part == Strip(parts[1])
         IN  IF EndsWith(Upper(part), "W") THEN part
             ELSE FirstWestboundPart(Tail(parts), fallback)

RECURSIVE FirstUpperCaseWPart(_, _)
FirstUpperCaseWPart(parts, fallback) ==
    IF parts = <<>> THEN fallback
    ELSE LET part == Strip(parts[1])
         IN  IF EndsWith(part, "W") THEN part
             ELSE FirstUpperCaseWPart(Tail(parts), fallback)

extract_westbound_voyage_case_sensitive(v) ==
    LET text == IF v # None THEN Strip(v) ELSE <<>>
    IN  IF text = <<>> THEN <<>>
        ELSE FirstUpperCaseWPart(Split(text, "/"), Strip(Split(text, "/")[1]))

extract_westbound_voyage(v) ==
    LET text == IF v # None THEN Strip(v) ELSE <<>>
    IN  IF text = <<>> THEN <<>>
        ELSE FirstWestboundPart(Split(text, "/"), Strip(Split(text, "/")[1]))

(***************************************************************************)
(* CSL_FETCH.py: the service rules and the westbound slice.                *)
(***************************************************************************)
\* rules.get(key): the rule of a service, or NoRule
RuleOf(rules, service) ==
    IF service \in DOMAIN rules THEN rules[service] ELSE [start |-> None, end |-> None]

\* rules[service] = {"start": ..., "end": ...}
PutRule(rules, service, rule) ==
    [sv \in DOMAIN rules \cup {service} |-> IF sv = service THEN rule ELSE rules[sv]]

\* the "for row in df.to_dict(orient='records')" loop of load_service_rules
RECURSIVE LoadRulesFrom(_, _)
LoadRulesFrom(table, rules) ==
    IF table = <<>> THEN rules
    ELSE LET row == table[1]
             service == normalize_port_name(row.SERVICE)
             start_port == normalize_port_name(row.START)
             end_port == normalize_port_name(row.END)
         IN  IF service # <<>> /\ start_port # <<>> /\ end_port # <<>>
             THEN LoadRulesFrom(Tail(table),
                                PutRule(rules, service, [start |-> start_port, end |-> end_port]))
             ELSE LoadRulesFrom(Tail(table), rules)

load_service_rules(table) == LoadRulesFrom(table, <<>>)

RECURSIVE FindLastEndIdx(_, _, _)
FindLastEndIdx(cs, end_port, idx) ==
    IF idx > Len(cs) THEN 0
    ELSE LET later == FindLastEndIdx(cs, end_port, idx + 1)
         IN  IF later # 0 THEN later
             ELSE IF normalize_port_name(cs[idx].PortName) = end_port THEN idx ELSE 0

\* the enumerate loop of slice_westbound_calls: the 1-based position of the
\* first call at the end port, 0 for end_idx = None
RECURSIVE FindEndIdx(_, _, _)
FindEndIdx(cs, end_port, idx) ==
    IF idx > Len(cs) THEN 0
    ELSE IF normalize_port_name(cs[idx].PortName) = end_port THEN idx
    ELSE FindEndIdx(cs, end_port, idx + 1)

\* sliced_call = dict(call) with PortCallSeq and Direction set
SlicedCall(call, seq) ==
    [f \in DOMAIN call \cup {"PortCallSeq", "Direction"} |->
        IF f = "PortCallSeq" THEN seq
        ELSE IF f = "Direction" THEN <<"W">>
        ELSE call[f]]

slice_westbound_calls_keep_unterminated(cs, rule) ==
    IF cs = <<>> THEN <<>>
    ELSE IF rule = [start |-> None, end |-> None] THEN cs
    ELSE LET end_idx == FindEndIdx(cs, rule.end, 1)
         IN  IF end_idx = 0 THEN cs
             ELSE [k \in 1..end_idx |-> SlicedCall(cs[k], k)]

slice_westbound_calls_drop_unruled(cs, rule) ==
    IF cs = <<>> THEN <<>>
    ELSE IF rule = [start |-> None, end |-> None] THEN <<>>
    ELSE LET end_idx == FindEndIdx(cs, rule.end, 1)
         IN  IF end_idx = 0 THEN <<>>
             ELSE [k \in 1..end_idx |-> SlicedCall(cs[k], k)]

slice_westbound_calls(cs, rule) ==
    IF cs = <<>> THEN <<>>
    ELSE IF rule = [start |-> None, end |-> None] THEN cs
    ELSE LET end_idx == FindEndIdx(cs, rule.end, 1)
         IN  IF end_idx = 0 THEN <<>>
             ELSE [k \in 1..end_idx |-> SlicedCall(cs[k], k)]

(***************************************************************************)
(* JSON values of a response body: a node is tagged with its Python type,  *)
(* [t |-> "dict", d |-> fields], [t |-> "list", items |-> sequence],       *)
(* [t |-> "str", s |-> characters] or [t |-> "none"].  The fields of a     *)
(* port-call record are strings or None.                                   *)
(***************************************************************************)
JNone == [t |-> "none"]
JDict(fields) == [t |-> "dict", d |-> fields]
JList(items) == [t |-> "list", items |-> items]
JStr(chars) == [t |-> "str", s |-> chars]

JNum(n) == [t |-> "num", n |-> n]

\* bool(node)
Truthy(node) ==
    CASE node.t = "dict" -> DOMAIN node.d # {}
      [] node.t = "list" -> node.items # <<>>
      [] node.t = "str" -> node.s # <<>>
      [] node.t = "num" -> node.n # 0
      [] OTHER -> FALSE

\* a or b
OrElse(a, b) == IF Truthy(a) THEN a ELSE b

\* a or {}
OrEmptyDict(a) == OrElse(a, [t |-> "dict", d |-> <<>>])

\* what a call gives: its value, or the exception it raised
Returned(v) == [raised |-> "none", value |-> v]
Raised(e) == [raised |-> e, value |-> [t |-> "none"]]

\* node.get(key) of a dict node whose values are nodes
JGet(node, key) == IF key \in DOMAIN node.d THEN node.d[key] ELSE [t |-> "none"]

\* row.get(key) of a port-call record
RowGet(row, key) == IF key \in DOMAIN row.d THEN row.d[key] ELSE None

(***************************************************************************)
(* CSL_FETCH.py: extract_port_call_rows and parse_tables.                  *)
(***************************************************************************)
\* (((response_json.get("data") or {}).get("content") or {}).get("data") or [])
extract_port_call_rows(resp) ==
    IF resp.t # "dict" THEN [raised |-> "AttributeError", rows |-> <<>>]
    ELSE LET a == JGet(resp, "data")
             a1 == IF Truthy(a) THEN a ELSE JDict(<<>>)
         IN  IF a1.t # "dict" THEN [raised |-> "AttributeError", rows |-> <<>>]
             ELSE LET b == JGet(a1, "content")
                      b1 == IF Truthy(b) THEN b ELSE JDict(<<>>)
                  IN  IF b1.t # "dict" THEN [raised |-> "AttributeError", rows |-> <<>>]
                      ELSE LET c == JGet(b1, "data")
                           IN  [raised |-> "none",
                                rows |-> IF Truthy(c) /\ c.t = "list" THEN c.items ELSE <<>>]

group_key_without_vessel(row) ==
    <<RowGet(row, "loopAbbrv"), None, None, RowGet(row, "voy")>>

group_key(row) ==
    <<RowGet(row, "loopAbbrv"), RowGet(row, "vesselCode"),
      RowGet(row, "vesselName"), RowGet(row, "voy")>>

\* the dict appended to voyage_groups[group_key]
GroupedCall(row, seq) ==
    [LoopAbbrv |-> RowGet(row, "loopAbbrv"),
     VesselCode |-> RowGet(row, "vesselCode"),
     VesselName |-> RowGet(row, "vesselName"),
     Voyage |-> extract_westbound_voyage(RowGet(row, "voy")),
     PortCallSeq |-> seq,
     PortName |-> RowGet(row, "protName"),
     ArrDtlocAct |-> RowGet(row, "arrDtlocAct"),
     DepDtlocAct |-> RowGet(row, "depDtlocAct"),
     ArrDtlocCos |-> RowGet(row, "arrDtlocCos"),
     DepDtlocCos |-> RowGet(row, "depDtlocCos")]

\* the first loop of parse_tables: voyage_groups and voyage_order
RECURSIVE GroupRows(_, _, _)
GroupRows(rows, groups, order) ==
    IF rows = <<>> THEN [groups |-> groups, order |-> order]
    ELSE LET row == rows[1]
         IN  IF row.t # "dict" THEN GroupRows(Tail(rows), groups, order)
             ELSE LET key == group_key(row)
                      seen == key \in DOMAIN groups
                      old == IF seen THEN groups[key] ELSE <<>>
                      new == Append(old, GroupedCall(row, Len(old) + 1))
                  IN  GroupRows(Tail(rows),
                                [g \in DOMAIN groups \cup {key} |->
                                    IF g = key THEN new ELSE groups[g]],
                                IF seen THEN order ELSE Append(order, key))

\* " > ".join(port_names)
RECURSIVE JoinPath(_)
JoinPath(names) ==
    IF names = <<>> THEN <<>>
    ELSE IF Len(names) = 1 THEN names[1]
    ELSE names[1] \o <<" ", ">", " ">> \o JoinPath(Tail(names))

IsNamed(call) == call.PortName # None /\ call.PortName # <<>>

\* port_names of parse_tables
PortNamesOf(wcalls) ==
    LET named == SelectSeq(wcalls, IsNamed)
    IN  [k \in 1..Len(named) |-> named[k].PortName]

VoyageRowCountingNamedPorts(wcalls) ==
    LET first_call == wcalls[1]
        last_call == wcalls[Len(wcalls)]
    IN  [LoopAbbrv |-> first_call.LoopAbbrv,
         VesselCode |-> first_call.VesselCode,
         VesselName |-> first_call.VesselName,
         Voyage |-> first_call.Voyage,
         Direction |-> <<"W">>,
         PortCallCount |-> Len(PortNamesOf(wcalls)),
         FirstPort |-> first_call.PortName,
         LastPort |-> last_call.PortName,
         FirstArrDtlocAct |-> first_call.ArrDtlocAct,
         FirstDepDtlocAct |-> first_call.DepDtlocAct,
         LastArrDtlocAct |-> last_call.ArrDtlocAct,
         LastDepDtlocAct |-> last_call.DepDtlocAct,
         FirstArrDtlocCos |-> first_call.ArrDtlocCos,
         FirstDepDtlocCos |-> first_call.DepDtlocCos,
         LastArrDtlocCos |-> last_call.ArrDtlocCos,
         LastDepDtlocCos |-> last_call.DepDtlocCos,
         PortCallPath |-> JoinPath(PortNamesOf(wcalls))]

\* the dict appended to voyage_rows
VoyageRow(wcalls) ==
    LET first_call == wcalls[1]
        last_call == wcalls[Len(wcalls)]
    IN  [LoopAbbrv |-> first_call.LoopAbbrv,
         VesselCode |-> first_call.VesselCode,
         VesselName |-> first_call.VesselName,
         Voyage |-> first_call.Voyage,
         Direction |-> <<"W">>,
         PortCallCount |-> Len(wcalls),
         FirstPort |-> first_call.PortName,
         LastPort |-> last_call.PortName,
         FirstArrDtlocAct |-> first_call.ArrDtlocAct,
         FirstDepDtlocAct |-> first_call.DepDtlocAct,
         LastArrDtlocAct |-> last_call.ArrDtlocAct,
         LastDepDtlocAct |-> last_call.DepDtlocAct,
         FirstArrDtlocCos |-> first_call.ArrDtlocCos,
         FirstDepDtlocCos |-> first_call.DepDtlocCos,
         LastArrDtlocCos |-> last_call.ArrDtlocCos,
         LastDepDtlocCos |-> last_call.DepDtlocCos,
         PortCallPath |-> JoinPath(PortNamesOf(wcalls))]

\* the second loop of parse_tables: "for group_key in voyage_order"
RECURSIVE EmitGroups(_, _, _, _, _)
EmitGroups(order, groups, rules, vrows, prows) ==
    IF order = <<>> THEN [voyage_rows |-> vrows, port_call_rows |-> prows, raised |-> "none"]
    ELSE LET key == order[1]
             service_code == normalize_port_name(key[1])
             wcalls == slice_westbound_calls(groups[key], RuleOf(rules, service_code))
         IN  IF wcalls = <<>> THEN EmitGroups(Tail(order), groups, rules, vrows, prows)
             ELSE EmitGroups(Tail(order), groups, rules,
                             Append(vrows, VoyageRow(wcalls)), prows \o wcalls)

parse_tables(resp, table) ==
    LET ext == extract_port_call_rows(resp)
    IN  IF ext.raised # "none"
        THEN [voyage_rows |-> <<>>, port_call_rows |-> <<>>, raised |-> ext.raised]
        ELSE IF ext.rows = <<>>
        THEN [voyage_rows |-> <<>>, port_call_rows |-> <<>>, raised |-> "none"]
        ELSE LET grouped == GroupRows(ext.rows, <<>>, <<>>)
             IN  EmitGroups(grouped.order, grouped.groups, load_service_rules(table),
                            <<>>, <<>>)

(***************************************************************************)
(* MSK_FETCH.py: get_alt_code, get_location_fields, parse_voyage_rows and  *)
(* parse_leg_rows.  The values of the rows are JSON nodes.                 *)
(***************************************************************************)
GEO_ID == <<"G", "E", "O", "_", "I", "D">>

\* the "for item in ..." loop of get_alt_code
RECURSIVE FirstAltCode(_, _)
FirstAltCode(items, code_type) ==
    IF items = <<>> THEN [t |-> "none"]
    ELSE LET item == items[1]
             kind == IF item.t = "dict" THEN JGet(item, "alternativeCodeType")
                     ELSE [t |-> "none"]
         IN  IF item.t = "dict" /\ kind.t = "str" /\ kind.s = code_type
             THEN JGet(item, "alternativeCode")
             ELSE FirstAltCode(Tail(items), code_type)

get_alt_code(location) ==
    IF location.t # "dict" THEN Returned([t |-> "none"])
    ELSE LET codes == IF "alternativeCodes" \in DOMAIN location.d
                      THEN location.d.alternativeCodes ELSE JList(<<>>)
         IN  CASE codes.t = "list" -> Returned(FirstAltCode(codes.items, GEO_ID))
               [] codes.t \in {"str", "dict"} -> Returned([t |-> "none"])
               [] OTHER -> Raised("TypeError")

NoLocationFields ==
    [FacilityCode |-> JNone, GeoId |-> JNone, ETA |-> JNone, ETD |-> JNone,
     VoyageNumber |-> JNone, Direction |-> JNone, CarrierCode |-> JNone,
     ServiceCode |-> JNone, ServiceName |-> JNone]

get_location_fields(port_call) ==
    IF port_call.t # "dict" THEN Returned(NoLocationFields)
    ELSE LET loc == OrEmptyDict(JGet(port_call, "location"))
         IN  IF loc.t # "dict" THEN Raised("AttributeError")
             ELSE LET location == OrEmptyDict(JGet(loc, "facility"))
                      arrival_service == OrEmptyDict(JGet(port_call, "arrivalService"))
                      geo == get_alt_code(location)
                  IN  IF location.t # "dict" THEN Raised("AttributeError")
                      ELSE IF geo.raised # "none" THEN Raised(geo.raised)
                      ELSE IF arrival_service.t # "dict" THEN Raised("AttributeError")
                      ELSE Returned(
                          [FacilityCode |-> JGet(location, "facilityCode"),
                           GeoId |-> geo.value,
                           ETA |-> JGet(port_call, "estimatedTimeOfArrival"),
                           ETD |-> JGet(port_call, "estimatedTimeOfDeparture"),
                           VoyageNumber |-> OrElse(JGet(port_call, "departureVoyageNumber"),
                                                   JGet(port_call, "arrivalVoyageNumber")),
                           Direction |-> OrElse(JGet(port_call, "departureDirection"),
                                                JGet(port_call, "arrivalDirection")),
                           CarrierCode |-> JGet(port_call, "carrierCode"),
                           ServiceCode |-> JGet(arrival_service, "serviceCode"),
                           ServiceName |-> JGet(arrival_service, "serviceName")])

\* x.get(key) if isinstance(x, dict) else {}
GetIfDict(x, key) == IF x.t = "dict" THEN JGet(x, key) ELSE JDict(<<>>)

\* x.get(key) if isinstance(x.get(key), dict) else {}
DictOrEmpty(x, key) == IF JGet(x, key).t = "dict" THEN JGet(x, key) ELSE JDict(<<>>)

\* route.get("routingLegs") if isinstance(route.get("routingLegs"), list) else []
LegsOf(route) ==
    IF JGet(route, "routingLegs").t = "list" THEN JGet(route, "routingLegs").items ELSE <<>>

\* max(len(legs) - 1, 0)
TransshipmentCount(legs) == IF Len(legs) - 1 > 0 THEN Len(legs) - 1 ELSE 0

\* ",".join(items)
RECURSIVE JoinProviders(_)
JoinProviders(items) ==
    IF items = <<>> THEN <<>>
    ELSE IF Len(items) = 1 THEN items[1].s
    ELSE items[1].s \o <<",">> \o JoinProviders(Tail(items))

RouteProviders(route) ==
    LET rp == JGet(route, "routeProviders")
    IN  IF rp.t # "list" THEN Returned([t |-> "none"])
        ELSE IF \E k \in 1..Len(rp.items) : rp.items[k].t # "str" THEN Raised("TypeError")
        ELSE Returned(JStr(JoinProviders(rp.items)))

\* the row parse_voyage_rows appends for one routing
MskVoyageRow(route) ==
    LET legs == LegsOf(route)
        first_leg == IF legs # <<>> THEN legs[1] ELSE JDict(<<>>)
        last_leg == IF legs # <<>> THEN legs[Len(legs)] ELSE JDict(<<>>)
        first_carriage == GetIfDict(first_leg, "carriage")
        last_carriage == GetIfDict(last_leg, "carriage")
        start_info == get_location_fields(GetIfDict(first_carriage, "vesselPortCallStart"))
        end_info == get_location_fields(GetIfDict(last_carriage, "vesselPortCallEnd"))
        vessel == IF first_carriage.t = "dict" THEN DictOrEmpty(first_carriage, "vessel")
                  ELSE JDict(<<>>)
        providers == RouteProviders(route)
    IN  IF start_info.raised # "none" THEN Raised(start_info.raised)
        ELSE IF end_info.raised # "none" THEN Raised(end_info.raised)
        ELSE IF providers.raised # "none" THEN Raised(providers.raised)
        ELSE Returned(
            [RoutingIdentifier |-> JGet(route, "routingIdentifier"),
             RouteId |-> JGet(route, "routeId"),
             RouteCode |-> JGet(route, "routeCode"),
             RouteCodeDirection |-> JGet(route, "routeCodeDirection"),
             RouteSequenceNumber |-> JGet(route, "routeSequenceNumber"),
             Priority |-> JGet(route, "priority"),
             EstimatedTransitTime |-> JGet(route, "estimatedTransitTime"),
             SourceSystem |-> JGet(route, "sourceSystem"),
             RouteProviders |-> providers.value,
             LegCount |-> Len(legs),
             TransshipmentCount |-> TransshipmentCount(legs),
             VesselName |-> JGet(vessel, "vesselName"),
             VesselMaerskCode |-> JGet(vessel, "vesselMaerskCode"),
             VesselFlagCountryCode |-> JGet(vessel, "flagCountryCode"),
             StartFacilityCode |-> start_info.value.FacilityCode,
             StartGeoId |-> start_info.value.GeoId,
             StartETA |-> start_info.value.ETA,
             StartETD |-> start_info.value.ETD,
             StartVoyageNumber |-> start_info.value.VoyageNumber,
             StartDirection |-> start_info.value.Direction,
             StartCarrierCode |-> start_info.value.CarrierCode,
             StartServiceCode |-> start_info.value.ServiceCode,
             StartServiceName |-> start_info.value.ServiceName,
             EndFacilityCode |-> end_info.value.FacilityCode,
             EndGeoId |-> end_info.value.GeoId,
             EndETA |-> end_info.value.ETA,
             EndETD |-> end_info.value.ETD,
             EndVoyageNumber |-> end_info.value.VoyageNumber,
             EndDirection |-> end_info.value.Direction,
             EndCarrierCode |-> end_info.value.CarrierCode,
             EndServiceCode |-> end_info.value.ServiceCode,
             EndServiceName |-> end_info.value.ServiceName])

\* response_json.get("routings") if isinstance(response_json, dict) else []
RoutingsOf(resp) == IF resp.t = "dict" THEN JGet(resp, "routings") ELSE JList(<<>>)

\* the "for route in routings" loop of parse_voyage_rows
RECURSIVE VoyageRowsFrom(_, _)
VoyageRowsFrom(routings, rows) ==
    IF routings = <<>> THEN [raised |-> "none", rows |-> rows]
    ELSE IF routings[1].t # "dict" THEN VoyageRowsFrom(Tail(routings), rows)
    ELSE LET row == MskVoyageRow(routings[1])
         IN  IF row.raised # "none" THEN [raised |-> row.raised, rows |-> <<>>]
             ELSE VoyageRowsFrom(Tail(routings), Append(rows, row.value))

parse_voyage_rows(resp) ==
    IF RoutingsOf(resp).t # "list" THEN [raised |-> "none", rows |-> <<>>]
    ELSE VoyageRowsFrom(RoutingsOf(resp).items, <<>>)

\* the row parse_leg_rows appends for the idx-th leg of a routing
MskLegRow(route_id, idx, leg) ==
    LET carriage == DictOrEmpty(leg, "carriage")
        start_info == get_location_fields(JGet(carriage, "vesselPortCallStart"))
        end_info == get_location_fields(JGet(carriage, "vesselPortCallEnd"))
        vessel == DictOrEmpty(carriage, "vessel")
        transport_mode == DictOrEmpty(leg, "transportMode")
    IN  IF start_info.raised # "none" THEN Raised(start_info.raised)
        ELSE IF end_info.raised # "none" THEN Raised(end_info.raised)
        ELSE Returned(
            [RoutingIdentifier |-> route_id,
             LegIndex |-> idx,
             RoutingLegIdentifier |-> JGet(leg, "routingLegIdentifier"),
             JourneyType |-> JGet(leg, "journeyType"),
             ShipmentRoutingType |-> JGet(leg, "shipmentRoutingType"),
             TransportModeCode |-> JGet(transport_mode, "transportModeCode"),
             LegEstimatedTransitTime |-> JGet(leg, "estimatedTransitTime"),
             CarriageType |-> JGet(carriage, "carriageType"),
             VesselName |-> JGet(vessel, "vesselName"),
             VesselMaerskCode |-> JGet(vessel, "vesselMaerskCode"),
             StartFacilityCode |-> start_info.value.FacilityCode,
             StartGeoId |-> start_info.value.GeoId,
             StartETA |-> start_info.value.ETA,
             StartETD |-> start_info.value.ETD,
             EndFacilityCode |-> end_info.value.FacilityCode,
             EndGeoId |-> end_info.value.GeoId,
             EndETA |-> end_info.value.ETA,
             EndETD |-> end_info.value.ETD,
             DepartureVoyageNumber |-> start_info.value.VoyageNumber,
             ArrivalVoyageNumber |-> end_info.value.VoyageNumber])

\* the "for idx, leg in enumerate(legs, start=1)" loop of parse_leg_rows
RECURSIVE LegRowsOfRoute(_, _, _, _)
LegRowsOfRoute(route_id, legs, idx, rows) ==
    IF idx > Len(legs) THEN [raised |-> "none", rows |-> rows]
    ELSE IF legs[idx].t # "dict" THEN LegRowsOfRoute(route_id, legs, idx + 1, rows)
    ELSE LET row == MskLegRow(route_id, idx, legs[idx])
         IN  IF row.raised # "none" THEN [raised |-> row.raised, rows |-> <<>>]
             ELSE LegRowsOfRoute(route_id, legs, idx + 1, Append(rows, row.value))

\* the "for route in routings" loop of parse_leg_rows
RECURSIVE LegRowsFrom(_, _)
LegRowsFrom(routings, rows) ==
    IF routings = <<>> THEN [raised |-> "none", rows |-> rows]
    ELSE IF routings[1].t # "dict" THEN LegRowsFrom(Tail(routings), rows)
    ELSE LET res == LegRowsOfRoute(JGet(routings[1], "routingIdentifier"),
                                   LegsOf(routings[1]), 1, rows)
         IN  IF res.raised # "none" THEN res
             ELSE LegRowsFrom(Tail(routings), res.rows)

parse_leg_rows(resp) ==
    IF RoutingsOf(resp).t # "list" THEN [raised |-> "none", rows |-> <<>>]
    ELSE LegRowsFrom(RoutingsOf(resp).items, <<>>)

(***************************************************************************)
(* MSC_FETCH.py: parse_voyage_rows.  The values of the rows are JSON nodes;*)
(* a row is a record whose fields are the keys of the dict.                *)
(***************************************************************************)
\* response_json.get("Data") or response_json.get("data") or []
MscDataOf(resp) ==
    IF resp.t = "dict"
    THEN OrElse(OrElse(JGet(resp, "Data"), JGet(resp, "data")), JList(<<>>))
    ELSE JList(<<>>)

\* the sailing-level fields
MscBase(sailing) ==
    [RouteHeaderId |-> JGet(sailing, "RouteHeaderId"),
     PortOfLoadId |-> JGet(sailing, "PortOfLoadId"),
     PortOfLoad |-> JGet(sailing, "PortOfLoad"),
     PortOfLoadUnCode |-> JGet(sailing, "PortOfLoadUnCode"),
     PortOfDischargeId |-> JGet(sailing, "PortOfDischargeId"),
     PortOfDischarge |-> JGet(sailing, "PortOfDischarge"),
     PortOfDischargeUnCode |-> JGet(sailing, "PortOfDischargeUnCode"),
     TransitTime |-> JGet(sailing, "TransitTime"),
     TransitTimeHours |-> JGet(sailing, "TransitTimeHours"),
     CO2FootPrint |-> JGet(sailing, "CO2FootPrint"),
     EstimatedDepartureTime |-> JGet(sailing, "EstimatedDepartureTime"),
     EstimatedDepartureTimeFormatted |-> JGet(sailing, "EstimatedDepartureTimeFormatted"),
     LoadingService |-> JGet(sailing, "LoadingService"),
     IsDirectRoute |-> JGet(sailing, "IsDirectRoute"),
     RoutingType |-> JGet(sailing, "RoutingType")]

\* row = dict(base); row.update(fields)
DictUpdate(row, fields) ==
    [k \in DOMAIN row \cup DOMAIN fields |->
        IF k \in DOMAIN fields THEN fields[k] ELSE row[k]]

\* the fields a dict route adds to the row of its sailing
MscRouteFields(idx, route) ==
    LET cutoffs == DictOrEmpty(route, "CutOffs")
        leg_details == IF JGet(route, "RouteScheduleLegDetails").t = "list"
                       THEN JGet(route, "RouteScheduleLegDetails").items ELSE <<>>
        first_leg == IF leg_details # <<>> THEN leg_details[1] ELSE JDict(<<>>)
        last_leg == IF leg_details # <<>> THEN leg_details[Len(leg_details)] ELSE JDict(<<>>)
    IN  IF first_leg.t # "dict" \/ last_leg.t # "dict" THEN Raised("AttributeError")
        ELSE LET vessel == DictOrEmpty(first_leg, "Vessel")
             IN  Returned(
            [RouteIndex |-> JNum(idx),
             RouteVesselName |-> JGet(route, "VesselName"),
             DepartureVoyageNo |-> JGet(route, "DepartureVoyageNo"),
             RouteEstimatedDepartureDate |-> JGet(route, "EstimatedDepartureDate"),
             RouteEstimatedDepartureDateFormatted |->
                 JGet(route, "EstimatedDepartureDateFormatted"),
             RouteEstimatedArrivalDate |-> JGet(route, "EstimatedArrivalDate"),
             RouteEstimatedArrivalDateFormatted |->
                 JGet(route, "EstimatedArrivalDateFormatted"),
             RouteTotalTransitTime |-> JGet(route, "TotalTransitTime"),
             RouteTotalTransitTimeHours |-> JGet(route, "TotalTransitTimeHours"),
             RouteCO2FootPrint |-> JGet(route, "CO2FootPrint"),
             ContainerYardCutOffDate |-> JGet(cutoffs, "ContainerYardCutOffDate"),
             ReeferCutOffDate |-> JGet(cutoffs, "ReeferCutOffDate"),
             DangerousCargoCutOffDate |-> JGet(cutoffs, "DangerousCargoCutOffDate"),
             ShippingInstructionsCutOffDate |->
                 JGet(cutoffs, "ShippingInstructionsCutOffDate"),
             VerifiedGrossMassCutOffDate |-> JGet(cutoffs, "VerifiedGrossMassCutOffDate"),
             LegCount |-> JNum(Len(leg_details)),
             TransshipmentCount |-> JNum(TransshipmentCount(leg_details)),
             FirstLegDeparturePort |-> JGet(first_leg, "DeparturePortName"),
             FirstLegDepartureTime |-> JGet(first_leg, "EstimatedDepartureTime"),
             LastLegArrivalPort |-> JGet(last_leg, "ArrivalPortName"),
             LastLegArrivalTime |-> JGet(last_leg, "EstimatedArrivalTime"),
             VesselName |-> OrElse(JGet(vessel, "VesselName"), JGet(route, "VesselName")),
             VesselImoCode |-> JGet(vessel, "VesselImoCode"),
             VesselBuiltYear |-> JGet(vessel, "VesselBuiltYear"),
             VesselFlag |-> JGet(vessel, "VesselFlag")])

\* the "for idx, route in enumerate(routes, start=1)" loop, numbering every
\* route 1 whatever its position
RECURSIVE MscRowsOfRoutesAllFirst(_, _, _, _)
MscRowsOfRoutesAllFirst(base, routes, idx, rows) ==
    IF idx > Len(routes) THEN [raised |-> "none", rows |-> rows]
    ELSE IF routes[idx].t # "dict"
    THEN MscRowsOfRoutesAllFirst(base, routes, idx + 1,
                         Append(rows, DictUpdate(base, [RouteIndex |-> JNum(1)])))
    ELSE LET fields == MscRouteFields(1, routes[idx])
         IN  IF fields.raised # "none" THEN [raised |-> fields.raised, rows |-> <<>>]
             ELSE MscRowsOfRoutesAllFirst(base, routes, idx + 1,
                                  Append(rows, DictUpdate(base, fields.value)))

\* the "for idx, route in enumerate(routes, start=1)" loop
RECURSIVE MscRowsOfRoutes(_, _, _, _)
MscRowsOfRoutes(base, routes, idx, rows) ==
    IF idx > Len(routes) THEN [raised |-> "none", rows |-> rows]
    ELSE IF routes[idx].t # "dict"
    THEN MscRowsOfRoutes(base, routes, idx + 1,
                         Append(rows, DictUpdate(base, [RouteIndex |-> JNum(idx)])))
    ELSE LET fields == MscRouteFields(idx, routes[idx])
         IN  IF fields.raised # "none" THEN [raised |-> fields.raised, rows |-> <<>>]
             ELSE MscRowsOfRoutes(base, routes, idx + 1,
                                  Append(rows, DictUpdate(base, fields.value)))

\* the "for sailing in data" loop
RECURSIVE MscRowsFrom(_, _)
MscRowsFrom(data, rows) ==
    IF data = <<>> THEN [raised |-> "none", rows |-> rows]
    ELSE IF data[1].t # "dict" THEN MscRowsFrom(Tail(data), rows)
    ELSE LET sailing == data[1]
             base == MscBase(sailing)
             routes == JGet(sailing, "Routes")
         IN  IF routes.t # "list" \/ routes.items = <<>>
             THEN MscRowsFrom(Tail(data), Append(rows, base))
             ELSE LET res == MscRowsOfRoutes(base, routes.items, 1, rows)
                  IN  IF res.raised # "none" THEN res
                      ELSE MscRowsFrom(Tail(data), res.rows)

msc_parse_voyage_rows(resp) ==
    IF MscDataOf(resp).t # "list" THEN [raised |-> "none", rows |-> <<>>]
    ELSE MscRowsFrom(MscDataOf(resp).items, <<>>)

(***************************************************************************)
(* demo_v3.py: tables.  A DataFrame is [columns |-> names, rows |-> rows], *)
(* a row being a function from the column names to cell values: strings,   *)
(* or None for NaN.                                                        *)
(***************************************************************************)
\* pd.DataFrame()
EmptyFrame == [columns |-> <<>>, rows |-> <<>>]

\* df.empty
DfEmpty(df) == df.columns = <<>> \/ df.rows = <<>>

\* c in df.columns
HasColumn(df, c) == \E k \in 1..Len(df.columns) : df.columns[k] = c

LowerChar(c) ==
    IF \E k \in 1..Len(UpperLetters) : UpperLetters[k] = c
    THEN LowerLetters[CHOOSE k \in 1..Len(UpperLetters) : UpperLetters[k] = c]
    ELSE c

\* s.lower()
Lower(s) == [k \in 1..Len(s) |-> LowerChar(s[k])]

IsDigitAt(s, k) == k <= Len(s) /\ \E j \in 1..Len(Digits) : Digits[j] = s[k]

IsDateSepAt(s, k) == k <= Len(s) /\ s[k] \in {"-", "/"}

\* the length of the match of \d{4}[-/]\d{1,2}[-/]\d{1,2} at position p, or 0
DateMatchLen(s, p) ==
    IF ~(/\ IsDigitAt(s, p) /\ IsDigitAt(s, p + 1) /\ IsDigitAt(s, p + 2)
         /\ IsDigitAt(s, p + 3) /\ IsDateSepAt(s, p + 4) /\ IsDigitAt(s, p + 5))
    THEN 0
    ELSE IF IsDigitAt(s, p + 6) /\ IsDateSepAt(s, p + 7) /\ IsDigitAt(s, p + 8)
    THEN (IF IsDigitAt(s, p + 9) THEN 10 ELSE 9)
    ELSE IF IsDateSepAt(s, p + 6) /\ IsDigitAt(s, p + 7)
    THEN (IF IsDigitAt(s, p + 8) THEN 9 ELSE 8)
    ELSE 0

\* m = re.search(r"\d{4}[-/]\d{1,2}[-/]\d{1,2}", s); m.group(0), or None
SearchDate(s) ==
    LET hits == {p \in 1..Len(s) : DateMatchLen(s, p) > 0}
    IN  IF hits = {} THEN None
        ELSE LET p == CHOOSE q \in hits : \A r \in hits : q <= r
             IN  SubSeq(s, p, p + DateMatchLen(s, p) - 1)

\* s.split()[0] of a stripped string that is not empty
RECURSIVE FirstToken(_)
FirstToken(s) ==
    IF s = <<>> \/ IsSpace(s[1]) THEN <<>> ELSE <<s[1]>> \o FirstToken(Tail(s))

\* make_unique_key, extract_etd that keeps the whole text of the cell
extract_etd_whole_text(v) == IF v = None THEN <<>> ELSE Strip(v)

\* make_unique_key: extract_etd; summarize_capacity: extract_date_str
extract_etd(v) ==
    IF v = None THEN <<>>
    ELSE LET s == Strip(v)
             m == SearchDate(s)
         IN  IF m # None THEN m ELSE FirstToken(s)

\* " | ".join(parts)
RECURSIVE JoinKey(_)
JoinKey(parts) ==
    IF parts = <<>> THEN <<>>
    ELSE IF Len(parts) = 1 THEN parts[1]
    ELSE parts[1] \o <<" ", "|", " ">> \o JoinKey(Tail(parts))

\* [c for c in ("ID", "Origin ETD") if c in df.columns], or the first columns
KeyCols(df) ==
    LET named == SelectSeq(<<"ID", "Origin ETD">>, LAMBDA c : HasColumn(df, c))
    IN  IF named # <<>> THEN named
        ELSE SubSeq(df.columns, 1, IF Len(df.columns) < 6 THEN Len(df.columns) ELSE 6)

\* parts[c] of one cell
KeyPart(c, v) ==
    IF c = "Origin ETD" THEN extract_etd(v)
    ELSE Lower(Strip(IF v = None THEN <<>> ELSE v))

\* the keys of the rows of df, in row order
make_unique_key(df) ==
    IF DfEmpty(df) THEN <<>>
    ELSE LET key_cols == KeyCols(df)
         IN  [n \in 1..Len(df.rows) |->
                 JoinKey([k \in 1..Len(key_cols) |-> KeyPart(key_cols[k], df.rows[n][key_cols[k]])])]

(***************************************************************************)
(* demo_v3.py: fetch_all_pages and the merging of the query results in     *)
(* main.                                                                   *)
(***************************************************************************)
\* the "for k in keys" loop of fetch_all_pages: the rows kept and the keys seen
RECURSIVE KeepUnseen(_, _, _, _)
KeepUnseen(rows, keys, seen, kept) ==
    IF rows = <<>> THEN [rows |-> kept, seen |-> seen]
    ELSE IF keys[1] \in seen THEN KeepUnseen(Tail(rows), Tail(keys), seen, kept)
    ELSE KeepUnseen(Tail(rows), Tail(keys), seen \cup {keys[1]}, Append(kept, rows[1]))

\* df.loc[keep] of the page just read
DedupPage(df, seen) ==
    IF DfEmpty(df) THEN [df |-> df, seen |-> seen]
    ELSE LET res == KeepUnseen(df.rows, make_unique_key(df), seen, <<>>)
         IN  [df |-> [columns |-> df.columns, rows |-> res.rows], seen |-> res.seen]

\* the columns of the frames, each at its first place
RECURSIVE UnionColumns(_, _)
UnionColumns(frames, columns) ==
    IF frames = <<>> THEN columns
    ELSE UnionColumns(Tail(frames),
             columns \o SelectSeq(frames[1].columns,
                                  LAMBDA c : \A k \in 1..Len(columns) : columns[k] # c))

\* a row over the columns, NaN where it has no cell
Reindexed(row, columns) ==
    [c \in {columns[k] : k \in 1..Len(columns)} |-> IF c \in DOMAIN row THEN row[c] ELSE None]

RECURSIVE ConcatRows(_, _)
ConcatRows(frames, columns) ==
    IF frames = <<>> THEN <<>>
    ELSE [n \in 1..Len(frames[1].rows) |-> Reindexed(frames[1].rows[n], columns)]
         \o ConcatRows(Tail(frames), columns)

\* pd.concat(frames, ignore_index=True)
Concat(frames) ==
    LET columns == UnionColumns(frames, <<>>)
    IN  [columns |-> columns, rows |-> ConcatRows(frames, columns)]

\* df.drop_duplicates() keeping the last of the rows that have one key
RECURSIVE KeepLastOfKey(_, _)
KeepLastOfKey(rows, keys) ==
    IF rows = <<>> THEN <<>>
    ELSE IF \E m \in 2..Len(rows) : keys[m] = keys[1]
    THEN KeepLastOfKey(Tail(rows), Tail(keys))
    ELSE <<rows[1]>> \o KeepLastOfKey(Tail(rows), Tail(keys))

\* df.drop_duplicates(subset=...): the first of the rows that have one key
RECURSIVE KeepFirstOfKey(_, _)
KeepFirstOfKey(rows, keys) ==
    IF rows = <<>> THEN <<>>
    ELSE LET n == Len(rows)
         IN  IF \E m \in 1..(n - 1) : keys[m] = keys[n]
             THEN KeepFirstOfKey(SubSeq(rows, 1, n - 1), SubSeq(keys, 1, n - 1))
             ELSE Append(KeepFirstOfKey(SubSeq(rows, 1, n - 1), SubSeq(keys, 1, n - 1)), rows[n])

\* df.drop_duplicates(): rows equal in every column
DropDuplicateRows(df) == [columns |-> df.columns, rows |-> KeepFirstOfKey(df.rows, df.rows)]

\* out = pd.concat(dfs, ignore_index=True) if dfs else pd.DataFrame(); drop_duplicates
FetchedFrame(frames) ==
    IF frames = <<>> THEN EmptyFrame ELSE DropDuplicateRows(Concat(frames))

\* re.sub(r"[^\d]", "", x)
OnlyDigits(s) == SelectSeq(s, LAMBDA c : \E j \in 1..Len(Digits) : Digits[j] = c)

\* int(x) of a string of digits
RECURSIVE IntOfDigits(_)
IntOfDigits(s) ==
    IF s = <<>> THEN 0
    ELSE IntOfDigits(SubSeq(s, 1, Len(s) - 1)) * 10
         + ((CHOOSE j \in 1..Len(Digits) : Digits[j] = s[Len(s)]) - 1)

\* str(v) of a cell
CellStr(v) == IF v = None THEN <<"n", "a", "n">> ELSE v

\* the query result taken as it is, whatever the IDs of its rows
RowsOfAnyRoute(detail, route_id) == detail

\* main: the rows of the query result whose ID is the one of the route (the
\* second, numeric comparison selects from the frame the first one emptied)
RowsOfRoute(detail, route_id) ==
    IF ~HasColumn(detail, "ID") THEN EmptyFrame
    ELSE [columns |-> detail.columns,
          rows |-> SelectSeq(detail.rows,
                       LAMBDA row : OnlyDigits(Strip(CellStr(row["ID"]))) = IntStr(route_id))]

\* main: detail_df after the merge of all_details
MergedDetails(details) ==
    LET merged == IF details = <<>> THEN EmptyFrame ELSE Concat(details)
    IN  IF DfEmpty(merged) THEN merged
        ELSE [columns |-> merged.columns,
              rows |-> KeepFirstOfKey(merged.rows, make_unique_key(merged))]

(***************************************************************************)
(* Inputs: the dates the calendar is exercised on.                         *)
(***************************************************************************)
NoDate == [year |-> 0, month |-> 0, day |-> 0]

\* service_rules.get(...) found nothing
NoRule == [start |-> None, end |-> None]

\* no response body yet
NoResponse == JNone

MonthIndex(y, m) == y * 12 + (m - 1)

IsDate(dt) == dt.day <= DaysInMonth(dt.year, dt.month)

\* the months around the epoch, and the weeks around 29 February of the next leap year
Dates ==
    LET base == MonthIndex(WEEK1_START.year, WEEK1_START.month)
        leapYear == WEEK1_START.year + 2
    IN  {dt \in [year : (WEEK1_START.year - 1)..(WEEK1_START.year + 2),
                 month : 1..12, day : 1..31] :
            /\ IsDate(dt)
            /\ \/ /\ MonthIndex(dt.year, dt.month) >= base - MonthsBefore
                  /\ MonthIndex(dt.year, dt.month) <= base + MonthsAfter
               \/ /\ dt.year = leapYear
                  /\ \/ dt.month = 2 /\ dt.day > 14
                     \/ dt.month = 3 /\ dt.day <= 14}

WEEKS_AHEAD == 16

WeeksAheadArgs == (0..MaxWeeksAhead) \cup {WEEKS_AHEAD}

(***************************************************************************)
(* demo_v3.py: summarize_capacity and the ByConsortium table of main.      *)
(* The matrix is [columns, rows, week_cols, cells]: the roster columns it  *)
(* keeps and their rows, the labels of the week columns, and cells[r][w],  *)
(* the value of roster row r in week column w.  The Vessel and Voyage      *)
(* columns parse_vessel_voyage adds to the rows take no part in the        *)
(* capacity figures and are left out.                                      *)
(***************************************************************************)
\* missing = [c for c in needed if c not in detail_df.columns]
MissingColumns(df) ==
    SelectSeq(<<"ID", "Origin ETD", "Capacity">>, LAMBDA c : ~HasColumn(df, c))

\* set(routes_df[col_id].astype(int).tolist())
ValidIds(roster) == {roster.rows[r]["ID"] : r \in 1..Len(roster.rows)}

\* the ID of a row: <<int>>, or <<>> for the None that dropna removes
ParsedId(cell) ==
    LET digits == OnlyDigits(Strip(CellStr(cell)))
    IN  IF digits = <<>> THEN <<>> ELSE <<IntOfDigits(digits)>>

\* the Capacity of a row
ParsedCapacity(cell) ==
    LET digits == OnlyDigits(Strip(CellStr(cell)))
    IN  IF digits = <<>> THEN 0 ELSE IntOfDigits(digits)

\* pd.NaT
NaT == NoDate

IsDigits(s) == s # <<>> /\ OnlyDigits(s) = s

\* pd.to_datetime(text, errors="coerce").date() of a text extract_date_str
\* returns: year, month and day between "/" or "-"; NaT for the empty text,
\* for a text that is no date and for a day the calendar does not have
to_datetime(text) ==
    LET parts == Split([k \in 1..Len(text) |-> IF text[k] = "-" THEN "/" ELSE text[k]], "/")
    IN  IF Len(parts) # 3 \/ \E k \in 1..3 : ~IsDigits(parts[k]) THEN NaT
        ELSE LET dt == [year |-> IntOfDigits(parts[1]), month |-> IntOfDigits(parts[2]),
                        day |-> IntOfDigits(parts[3])]
             IN  IF dt.year >= 1 /\ dt.month \in 1..12 /\ dt.day >= 1 /\ IsDate(dt)
                 THEN dt ELSE NaT

\* the filter on week_no that has no lower end
InWindowNoStart(no, start, n) == no <= start + n - 1

\* (df["week_no"] >= start_week_no) & (df["week_no"] <= end_week_no)
InWindow(no, start, n) == no >= start /\ no <= start + n - 1

\* df before the groupby: ID, week_idx and Capacity of the rows that are kept
WorkingRows(df, valid_ids, start, n) ==
    LET with_id == SelectSeq(df.rows, LAMBDA row : ParsedId(row["ID"]) # <<>>)
        listed == SelectSeq(with_id, LAMBDA row : ParsedId(row["ID"])[1] \in valid_ids)
        dated == SelectSeq(listed,
                     LAMBDA row : to_datetime(extract_etd(row["Origin ETD"])) # NaT)
        weekOf(row) == week_no_for_date(to_datetime(extract_etd(row["Origin ETD"])))
        inside == SelectSeq(dated, LAMBDA row : InWindow(weekOf(row), start, n))
    IN  [k \in 1..Len(inside) |->
            [ID |-> ParsedId(inside[k]["ID"])[1],
             week_idx |-> weekOf(inside[k]) - start,
             Capacity |-> ParsedCapacity(inside[k]["Capacity"])]]

\* the Capacity of the last row of a group in place of the sum
LastCapacity(rows) == IF rows = <<>> THEN 0 ELSE rows[Len(rows)].Capacity

\* ["Capacity"].sum() of the rows of a group
RECURSIVE SumCapacity(_)
SumCapacity(rows) ==
    IF rows = <<>> THEN 0 ELSE rows[1].Capacity + SumCapacity(Tail(rows))

\* the keys of groupby(["ID", "week_idx"]) in its sorted order
RECURSIVE SortedPairs(_)
SortedPairs(S) ==
    IF S = {} THEN <<>>
    ELSE LET least == CHOOSE a \in S : \A b \in S :
                          a[1] < b[1] \/ (a[1] = b[1] /\ a[2] <= b[2])
         IN  <<least>> \o SortedPairs(S \ {least})

\* df.groupby(["ID", "week_idx"], as_index=False)["Capacity"].sum()
GroupCapacity(work) ==
    LET keys == SortedPairs({<<work[k].ID, work[k].week_idx>> : k \in 1..Len(work)})
    IN  [g \in 1..Len(keys) |->
            [ID |-> keys[g][1], week_idx |-> keys[g][2],
             Capacity |-> SumCapacity(SelectSeq(work,
                              LAMBDA w : w.ID = keys[g][1] /\ w.week_idx = keys[g][2]))]]

\* out = routes_df used without .copy(): the roster itself
routes_df_itself == "routes_df"

\* out = routes_df.copy(): a table of its own
routes_df_copy == "out"

\* the roster with "out[c] = 0" done for every week column
ZeroColumns(roster, week_cols) ==
    [columns |-> roster.columns, rows |-> roster.rows, week_cols |-> week_cols,
     cells |-> [r \in 1..Len(roster.rows) |-> [w \in 1..Len(week_cols) |-> 0]]]

\* the place of week_cols[idx] in week_cols, a negative idx counting from the
\* end; 0 where week_cols[idx] raises IndexError
ColumnAt(idx, n) ==
    IF idx >= 0 /\ idx < n THEN idx + 1
    ELSE IF idx < 0 /\ idx >= -n THEN n + idx + 1
    ELSE 0

\* out.loc[out[col_id] == rid, week_cols[idx]] += cap
WriteCell(o, rid, col, cap) ==
    [o EXCEPT !.cells =
        [r \in 1..Len(o.rows) |->
            IF o.rows[r]["ID"] = rid THEN [o.cells[r] EXCEPT ![col] = @ + cap]
            ELSE o.cells[r]]]

\* out[[col_route, col_id] + week_cols]
SelectColumns(o) ==
    [columns |-> <<"route_name", "ID">>,
     rows |-> [r \in 1..Len(o.rows) |-> [c \in {"route_name", "ID"} |-> o.rows[r][c]]],
     week_cols |-> o.week_cols,
     cells |-> o.cells]

\* the characters of the tags in the order of their code points
CharOrder == <<" ">> \o Digits \o UpperLetters \o LowerLetters

CodeOf(c) == CHOOSE k \in 1..Len(CharOrder) : CharOrder[k] = c

\* a < b of two str
RECURSIVE StrLess(_, _)
StrLess(a, b) ==
    IF b = <<>> THEN FALSE
    ELSE IF a = <<>> THEN TRUE
    ELSE IF a[1] = b[1] THEN StrLess(Tail(a), Tail(b))
    ELSE CodeOf(a[1]) < CodeOf(b[1])

RECURSIVE SortedStrs(_)
SortedStrs(S) ==
    IF S = {} THEN <<>>
    ELSE LET least == CHOOSE a \in S : \A b \in S : a = b \/ StrLess(a, b)
         IN  <<least>> \o SortedStrs(S \ {least})

\* merge_map: the consortium of the first roster row that has the ID
ConsortiumOfId(roster, id) ==
    LET first == CHOOSE r \in 1..Len(roster.rows) :
                    /\ roster.rows[r]["ID"] = id
                    /\ \A q \in 1..(r - 1) : roster.rows[q]["ID"] # id
    IN  roster.rows[first]["consortium"]

RECURSIVE SumCells(_, _, _)
SumCells(cells, picked, w) ==
    IF picked = <<>> THEN 0
    ELSE cells[picked[1]][w] + SumCells(cells, Tail(picked), w)

\* result_df.merge(merge_map, on=col_id, how="left")
\*     .groupby(col_consortium)[week_cols].sum().reset_index()
ByConsortiumTable(roster, result) ==
    LET tag(r) == ConsortiumOfId(roster, result.rows[r]["ID"])
        tags == SortedStrs({tag(r) : r \in 1..Len(result.rows)})
        rowsOf(t) == SelectSeq([r \in 1..Len(result.rows) |-> r], LAMBDA r : tag(r) = t)
    IN  [columns |-> <<"consortium">>,
         rows |-> [g \in 1..Len(tags) |-> [c \in {"consortium"} |-> tags[g]]],
         week_cols |-> result.week_cols,
         cells |-> [g \in 1..Len(tags) |->
                      [w \in 1..Len(result.week_cols) |->
                          SumCells(result.cells, rowsOf(tags[g]), w)]]]

(***************************************************************************)
(* demo_v3.py: load_routes.  A cell of the sheet is a Python value tagged  *)
(* with its type: an int, a float with the value n.0, a str, or NaN (an    *)
(* empty cell).  A row of the sheet is the sequence of its cells.          *)
(***************************************************************************)
IntCell(n) == [t |-> "int", v |-> n]
FloatCell(n) == [t |-> "float", v |-> n]
StrCell(chars) == [t |-> "str", s |-> chars]
NaNCell == [t |-> "nan"]

\* str(x) of a cell
PyStr(x) ==
    CASE x.t = "int" -> IntStr(x.v)
      [] x.t = "float" -> IntStr(x.v) \o <<".", "0">>
      [] x.t = "str" -> x.s
      [] OTHER -> <<"n", "a", "n">>

\* int(s) of a str: blanks around an optional sign and digits; ValueError
\* for anything else
PyInt(s) ==
    LET body == Strip(s)
        signed == body # <<>> /\ body[1] \in {"+", "-"}
        digits == IF signed THEN Tail(body) ELSE body
    IN  IF ~IsDigits(digits) THEN Raised("ValueError")
        ELSE Returned(IF signed /\ body[1] = "-" THEN 0 - IntOfDigits(digits)
                      ELSE IntOfDigits(digits))

\* to_int(x): the int, or NaNCell for the None that dropna removes
to_int(x) ==
    LET parsed == PyInt(Strip(PyStr(x)))
    IN  IF parsed.raised = "none" THEN IntCell(parsed.value) ELSE NaNCell

\* the row of routes for a row of the sheet that was kept
RosterRowOf(names, row) ==
    [c \in {names[k] : k \in 1..Len(names)} |->
        LET k == CHOOSE j \in 1..Len(names) : names[j] = c
        IN  IF k = 2 THEN row[2].v ELSE Strip(PyStr(row[k]))]

load_routes(df) ==
    IF Len(df.columns) < 4 THEN Raised("ValueError")
    ELSE LET ncols == IF Len(df.columns) >= 5 THEN 5 ELSE 4
             names == SubSeq(df.columns, 1, ncols)
             named == SelectSeq(df.rows, LAMBDA row : row[1].t # "nan" /\ row[2].t # "nan")
             mapped == [k \in 1..Len(named) |-> [named[k] EXCEPT ![2] = to_int(named[k][2])]]
             kept == SelectSeq(mapped, LAMBDA row : row[2].t # "nan")
         IN  Returned([columns |-> names,
                       rows |-> [k \in 1..Len(kept) |-> RosterRowOf(names, kept[k])]])

(***************************************************************************)
(* ezocean_table_scraper.py: iter_week_chunks.  The generator is modelled  *)
(* by the step next() makes it take: from where it is suspended to its     *)
(* next yield, its return or the exception it raises.                      *)
(***************************************************************************)
\* the Monday on or after a date
next_monday_on_or_after(dt) == DatePlusDays(dt, (7 - Weekday(dt)) % 7)

\* _next_sunday_on_or_after(d)
next_sunday_on_or_after(dt) == DatePlusDays(dt, (6 - Weekday(dt)) % 7)

\* min(a, b) of two dates
MinDate(a, b) == IF ToOrdinal(a) <= ToOrdinal(b) THEN a ELSE b

Chunk(from, to) == [from |-> from, to |-> to]

\* what a call of next() does: the new place and cur of the generator, the
\* chunk it yields if it yields one, the exception it raises if it raises
GenResult(at, c, yielded, exc) == [at |-> at, cur |-> c, yielded |-> yielded, raised |-> exc]

iter_week_chunks(start, end, at, c) ==
    CASE at = "start" ->
            IF start = NoDate \/ end = NoDate
            THEN GenResult("yielded_none", c, <<Chunk(NoDate, NoDate)>>, "none")
            ELSE IF ToOrdinal(end) < ToOrdinal(start)
            THEN GenResult("done", c, <<>>, "ValueError")
            ELSE LET first_end == MinDate(end, next_sunday_on_or_after(start))
                 IN  GenResult("loop", DatePlusDays(first_end, 1),
                               <<Chunk(start, first_end)>>, "none")
      [] at = "loop" ->
            IF ToOrdinal(c) <= ToOrdinal(end)
            THEN LET week_end == DatePlusDays(c, 6 - Weekday(c))
                     chunk_end == MinDate(end, week_end)
                 IN  GenResult("loop", DatePlusDays(chunk_end, 1),
                               <<Chunk(c, chunk_end)>>, "none")
            ELSE GenResult("done", c, <<>>, "none")
      [] OTHER -> GenResult("done", c, <<>>, "none")

(***************************************************************************)
(* ezocean_table_scraper.py: scrape_current_query.  The site shows one row *)
(* on a page; a row tells the filter and the page it was read under.       *)
(***************************************************************************)
SiteRow(filter, p) == [filter |-> filter, page |-> p]

\* read_pagination(page): shown_to and total_rows, known only if the page
\* has the line "Showing a to b of n rows"
read_pagination(info, p, pages) == [known |-> info, shown_to |-> p, total_rows |-> pages]

\* "if MAX_PAGES > 0 and pages_collected >= MAX_PAGES: break"
PageLimitReached(limit, collected) == limit > 0 /\ collected >= limit

\* the page number differs from the one before the click
PageChanged(new_page, old_page) == new_page # old_page

\* not "if new_page <= current_page: break"
PageAdvanced(new_page, old_page) == ~(new_page <= old_page)

(***************************************************************************)
(* Idle values of the variables a specification does not use.              *)
(***************************************************************************)
CalIdle ==
    /\ d = NoDate
    /\ week_no = 0
    /\ prev_d = NoDate
    /\ prev_week_no = 0

ColIdle ==
    /\ today = NoDate
    /\ start_week_no = 0
    /\ weeks_ahead = 0
    /\ i = 0
    /\ wn = 0
    /\ wk_start = NoDate
    /\ wk_end = NoDate
    /\ cols = <<>>

VoyIdle ==
    /\ voyage = None
    /\ westbound = <<>>

SliceIdle ==
    /\ calls = <<>>
    /\ service_rule = NoRule
    /\ westbound_calls = <<>>

TabIdle ==
    /\ response_json = NoResponse
    /\ rules_table = <<>>
    /\ voyage_rows = <<>>
    /\ port_call_rows = <<>>
    /\ raised = "none"

MskIdle ==
    /\ msk_response = NoResponse
    /\ msk_voyage_rows = <<>>
    /\ msk_leg_rows = <<>>
    /\ msk_raised = "none"

CslIdle == VoyIdle /\ SliceIdle /\ TabIdle

MscIdle ==
    /\ msc_response = NoResponse
    /\ msc_voyage_rows = <<>>
    /\ msc_raised = "none"

KeyIdle ==
    /\ key_df = EmptyFrame
    /\ row_keys = <<>>

FetchIdle ==
    /\ routes_df = EmptyFrame
    /\ site = <<>>
    /\ route_idx = 0
    /\ site_page = 0
    /\ seen_row_keys = {}
    /\ dfs = <<>>
    /\ all_details = <<>>
    /\ detail_df = EmptyFrame

SumIdle ==
    /\ g_cap = <<>>
    /\ g_pos = 0
    /\ out = EmptyFrame
    /\ out_ref = "none"
    /\ result_df = EmptyFrame
    /\ prev_result_df = EmptyFrame
    /\ summaries = 0
    /\ consortium_df = EmptyFrame
    /\ sum_raised = "none"

RosterIdle ==
    /\ template_df = <<>>
    /\ load_raised = "none"

NoChunk == [from |-> NoDate, to |-> NoDate]

GenIdle ==
    /\ ez_start = NoDate
    /\ ez_end = NoDate
    /\ gen_at = "none"
    /\ gen_cur = NoDate
    /\ chunks = <<>>
    /\ ez_raised = "none"

ScrapeIdle ==
    /\ site_filter = NoChunk
    /\ site_pages = 0
    /\ pagination_info = FALSE
    /\ now_page = 0
    /\ max_pages = 0
    /\ ez_current_page = 0
    /\ pages_collected = 0
    /\ page_log = <<>>
    /\ all_rows = <<>>

EzMainIdle ==
    /\ chunk = NoChunk
    /\ applied = FALSE
    /\ merged_rows = <<>>

EzIdle == GenIdle /\ ScrapeIdle /\ EzMainIdle

CosIdle ==
    /\ argv = None
    /\ target_service = None
    /\ browser = "none"
    /\ cos_step = 0
    /\ pending = "none"
    /\ captured = NoResponse
    /\ parse_invoked = FALSE
    /\ workbook = FALSE
    /\ cos_raised = "none"

MoreIdle == RosterIdle /\ EzIdle /\ CosIdle

TableIdle == KeyIdle /\ FetchIdle /\ SumIdle /\ MoreIdle

RestIdle == MscIdle /\ TableIdle

(***************************************************************************)
(* SpecWeek: summarize_capacity buckets one row date after another with    *)
(* week_no_for_date.                                                       *)
(***************************************************************************)
InitWeek ==
    /\ pc = "rows"
    /\ CalIdle
    /\ ColIdle
    /\ CslIdle
    /\ MskIdle
    /\ RestIdle

WeekNoForDate(dt) ==
    /\ pc = "rows"
    /\ d' = dt
    /\ week_no' = week_no_for_date(dt)
    /\ prev_d' = d
    /\ prev_week_no' = week_no
    /\ UNCHANGED <<pc, colVars, demoFrame>>

NextWeek == \E dt \in Dates : WeekNoForDate(dt)

SpecWeek == InitWeek /\ [][NextWeek]_vars

(***************************************************************************)
(* SpecCols: main computes the current week and builds the week columns.   *)
(***************************************************************************)
InitCols ==
    /\ pc = "main"
    /\ CalIdle
    /\ CslIdle
    /\ MskIdle
    /\ RestIdle
    /\ today \in Dates
    /\ start_week_no = 0
    /\ weeks_ahead = 0
    /\ i = 0
    /\ wn = 0
    /\ wk_start = NoDate
    /\ wk_end = NoDate
    /\ cols = <<>>

CurrentWeekNo ==
    /\ pc = "main"
    /\ start_week_no' = current_week_no(today)
    /\ pc' = "call"
    /\ UNCHANGED <<calVars, today, weeks_ahead, i, wn, wk_start, wk_end, cols, demoFrame>>

BuildWeekColumnsCall(n) ==
    /\ pc = "call"
    /\ weeks_ahead' = n
    /\ i' = 0
    /\ cols' = <<>>
    /\ pc' = "loop"
    /\ UNCHANGED <<calVars, today, start_week_no, wn, wk_start, wk_end, demoFrame>>

\* one iteration of "for i in range(weeks_ahead)"
BuildWeekColumnsStep ==
    /\ pc = "loop"
    /\ i < weeks_ahead
    /\ LET w == start_week_no + i
           s == week_start_date(w)
           e == week_end_date(s)
       IN  /\ wn' = w
           /\ wk_start' = s
           /\ wk_end' = e
           /\ cols' = Append(cols, week_label(w, s, e))
    /\ i' = i + 1
    /\ UNCHANGED <<pc, calVars, today, start_week_no, weeks_ahead, demoFrame>>

BuildWeekColumnsReturn ==
    /\ pc = "loop"
    /\ i >= weeks_ahead
    /\ pc' = "cols"
    /\ UNCHANGED <<calVars, colVars, demoFrame>>

NextCols ==
    \/ CurrentWeekNo
    \/ \E n \in WeeksAheadArgs : BuildWeekColumnsCall(n)
    \/ BuildWeekColumnsStep
    \/ BuildWeekColumnsReturn

SpecCols == InitCols /\ [][NextCols]_vars

(***************************************************************************)
(* SpecVoyage: extract_westbound_voyage applied to a raw voy value.        *)
(***************************************************************************)
VoyageChars == {"1", "W", "w", "/", " "}

Voyages == UNION {[1..n -> VoyageChars] : n \in 0..MaxVoyageLen}

InitVoyage ==
    /\ pc = "voy"
    /\ CalIdle
    /\ ColIdle
    /\ voyage \in Voyages \cup {None}
    /\ westbound = <<>>
    /\ SliceIdle
    /\ TabIdle
    /\ MskIdle
    /\ RestIdle

ExtractWestboundVoyage ==
    /\ pc = "voy"
    /\ westbound' = extract_westbound_voyage(voyage)
    /\ pc' = "voyage"
    /\ UNCHANGED <<calVars, colVars, voyage, sliceVars, tabVars, mskVars, restVars>>

NextVoyage == ExtractWestboundVoyage

SpecVoyage == InitVoyage /\ [][NextVoyage]_vars

(***************************************************************************)
(* COSCO inputs: the rule table and the port names of the calls.           *)
(***************************************************************************)
AEU1 == <<"A", "E", "U", "1">>
AEM1 == <<"A", "E", "M", "1">>
RTM == <<"R", "T", "M">>
SHA == <<"S", "H", "A">>
SIN == <<"S", "I", "N">>

\* csl_service_start_end.xlsx: a rule for AEU1 written in lower case with
\* blanks around it, and a row for AEM1 that has no END and gives no rule
RulesTable ==
    << [SERVICE |-> <<"a", "e", "u", "1", " ">>, START |-> <<"s", "h", "a">>,
        END |-> <<" ", "r", "t", "m">>],
       [SERVICE |-> AEM1, START |-> SHA, END |-> None] >>

PortNames == {RTM, <<"r", "t", "m", " ">>, SHA, SIN, None}

\* a call as parse_tables collects it for a voyage group
CallDict(loop, vessel_code, vessel_name, voy, seq, port) ==
    [LoopAbbrv |-> loop, VesselCode |-> vessel_code, VesselName |-> vessel_name,
     Voyage |-> extract_westbound_voyage(voy), PortCallSeq |-> seq, PortName |-> port,
     ArrDtlocAct |-> None, DepDtlocAct |-> None, ArrDtlocCos |-> None, DepDtlocCos |-> None]

VesselCode1 == <<"V", "1">>
VesselName1 == <<"S", "T", "A", "R">>
Voy1 == <<"1", "E", "/", "2", "W">>

(***************************************************************************)
(* SpecSlice: slice_westbound_calls applied to the calls of one group.     *)
(***************************************************************************)
InitSlice ==
    /\ pc = "calls"
    /\ CalIdle
    /\ ColIdle
    /\ VoyIdle
    /\ \E n \in 0..MaxCalls : \E ports \in [1..n -> PortNames] :
          calls = [k \in 1..n |-> CallDict(AEU1, VesselCode1, VesselName1, Voy1, k, ports[k])]
    /\ service_rule \in {RuleOf(load_service_rules(RulesTable), sv) : sv \in {AEU1, AEM1}}
    /\ westbound_calls = <<>>
    /\ TabIdle
    /\ MskIdle
    /\ RestIdle

SliceWestboundCalls ==
    /\ pc = "calls"
    /\ westbound_calls' = slice_westbound_calls(calls, service_rule)
    /\ pc' = "sliced"
    /\ UNCHANGED <<calVars, colVars, voyVars, calls, service_rule, tabVars, mskVars, restVars>>

NextSlice == SliceWestboundCalls

SpecSlice == InitSlice /\ [][NextSlice]_vars

(***************************************************************************)
(* SpecTables: parse_tables applied to one COSCO response.                 *)
(***************************************************************************)
Voy2 == <<"2", "W", "/", "3", "E">>
VesselCode2 == <<"V", "2">>

\* a timestamp text that tells the field and the port
Stamp(field, port) == <<field>> \o (IF port = None THEN <<>> ELSE port)

PortCallRecord(loop, vessel_code, voy, port) ==
    JDict([loopAbbrv |-> loop, vesselCode |-> vessel_code, vesselName |-> VesselName1,
           voy |-> voy, protName |-> port,
           arrDtlocAct |-> Stamp("a", port), depDtlocAct |-> Stamp("b", port),
           arrDtlocCos |-> Stamp("c", port), depDtlocCos |-> Stamp("d", port)])

\* the records a response is made of: two services (AEU1 has a rule, AEM1 has
\* none), two raw voyages with the same westbound code, the end port and
\* another port; a service code and an end port that need normalising, a
\* second vessel, a record without fields and an element that is no dict
ResponseRecords ==
    {PortCallRecord(loop, VesselCode1, voy, port) :
        loop \in {AEU1, AEM1}, voy \in {Voy1, Voy2}, port \in {RTM, SHA}}
    \cup {PortCallRecord(<<" ", "a", "e", "u", "1">>, VesselCode1, Voy1, <<"r", "t", "m", " ">>),
          PortCallRecord(AEU1, VesselCode2, Voy1, RTM),
          JDict(<<>>),
          JStr(SHA)}

ResponseOf(rows) ==
    JDict([data |-> JDict([content |-> JDict([data |-> JList(rows)])])])

InitTables ==
    /\ pc = "response"
    /\ CalIdle
    /\ ColIdle
    /\ VoyIdle
    /\ SliceIdle
    /\ \E n \in 0..MaxRows : \E rows \in [1..n -> ResponseRecords] :
          response_json = ResponseOf(rows)
    /\ rules_table = RulesTable
    /\ voyage_rows = <<>>
    /\ port_call_rows = <<>>
    /\ raised = "none"
    /\ MskIdle
    /\ RestIdle

ParseTables ==
    /\ pc = "response"
    /\ LET res == parse_tables(response_json, rules_table)
       IN  /\ voyage_rows' = res.voyage_rows
           /\ port_call_rows' = res.port_call_rows
           /\ raised' = res.raised
    /\ pc' = "tables"
    /\ UNCHANGED <<calVars, colVars, voyVars, sliceVars, response_json, rules_table, mskVars, restVars>>

NextTables == ParseTables

SpecTables == InitTables /\ [][NextTables]_vars

(***************************************************************************)
(* SpecExtract: parse_tables applied to a response body of any shape: at   *)
(* every level of data -> content -> data the node is missing, null, a     *)
(* string, a number, a list, or the dict that holds the next level.        *)
(***************************************************************************)
\* values that are no dict: null, strings, numbers and lists, empty or not
NonDictNodes ==
    {JNone, JStr(<<>>), JStr(SHA), JStr(RTM), JNum(0), JNum(1), JNum(404),
     JList(<<>>), JList(<<JStr(SHA)>>),
     JList(<<PortCallRecord(AEM1, VesselCode1, Voy1, SHA)>>)}

\* the innermost node: any value
InnerDataNodes == NonDictNodes \cup {JDict(<<>>), JDict([code |-> JNum(404)])}

\* a dict with the given key missing, or holding one of the given nodes
DictsWith(key, nodes) ==
    {JDict(<<>>)} \cup {JDict([k \in {key} |-> node]) : node \in nodes}

ContentNodes == NonDictNodes \cup DictsWith("data", InnerDataNodes)
OuterDataNodes == NonDictNodes \cup DictsWith("content", ContentNodes)
ResponseBodies == NonDictNodes \cup DictsWith("data", OuterDataNodes)

InitExtract ==
    /\ pc = "response"
    /\ CalIdle
    /\ ColIdle
    /\ VoyIdle
    /\ SliceIdle
    /\ response_json \in ResponseBodies
    /\ rules_table \in {<<>>, RulesTable}
    /\ voyage_rows = <<>>
    /\ port_call_rows = <<>>
    /\ raised = "none"
    /\ MskIdle
    /\ RestIdle

NextExtract == ParseTables

SpecExtract == InitExtract /\ [][NextExtract]_vars

(***************************************************************************)
(* SpecMaersk: save_to_excel parses one Maersk response into voyage rows   *)
(* and leg rows.                                                           *)
(***************************************************************************)
\* a port call of a vessel at a facility
MskPortCall(facility, geo, voyage_number) ==
    JDict([location |->
              JDict([facility |->
                  JDict([facilityCode |-> JStr(facility),
                         alternativeCodes |->
                             JList(<<JDict([alternativeCodeType |-> JStr(<<"R", "K", "S", "T">>),
                                            alternativeCode |-> JStr(facility)]),
                                     JDict([alternativeCodeType |-> JStr(GEO_ID),
                                            alternativeCode |-> JStr(geo)])>>)])]),
           estimatedTimeOfDeparture |-> JStr(<<"t", "1">>),
           departureVoyageNumber |-> JStr(voyage_number),
           arrivalService |-> JDict([serviceCode |-> JStr(<<"A", "E", "7">>)])])

\* an ocean leg with its carriage, a leg without fields, and an element of
\* routingLegs that is no dict
OceanLeg ==
    JDict([routingLegIdentifier |-> JStr(<<"L", "1">>),
           carriage |->
               JDict([vesselPortCallStart |-> MskPortCall(SHA, <<"G", "1">>, <<"6", "0", "8", "W">>),
                      vesselPortCallEnd |-> MskPortCall(RTM, <<"G", "2">>, <<"6", "0", "8", "W">>),
                      vessel |-> JDict([vesselName |-> JStr(VesselName1)])])])

RoutingLegChoices == {OceanLeg, JDict(<<>>), JStr(SHA)}

RoutingLegLists == UNION {[1..n -> RoutingLegChoices] : n \in 0..MaxLegs}

\* routings with a list of legs, with routingLegs null, and an element of
\* routings that is no dict
RoutingChoices ==
    {JDict([routingIdentifier |-> JStr(id), routingLegs |-> JList(legs),
            routeProviders |-> JList(<<JStr(<<"M", "S", "K">>)>>)]) :
        id \in {<<"R", "1">>, <<"R", "2">>}, legs \in RoutingLegLists}
    \cup {JDict([routingIdentifier |-> JStr(<<"R", "1">>), routingLegs |-> JNone]),
          JStr(<<"R", "1">>)}

InitMaersk ==
    /\ pc = "msk_response"
    /\ CalIdle
    /\ ColIdle
    /\ CslIdle
    /\ \E n \in 0..MaxRoutings : \E routings \in [1..n -> RoutingChoices] :
          msk_response = JDict([routings |-> JList(routings)])
    /\ msk_voyage_rows = <<>>
    /\ msk_leg_rows = <<>>
    /\ msk_raised = "none"
    /\ RestIdle

\* save_to_excel: voyage_rows = parse_voyage_rows(response_json)
ParseVoyageRows ==
    /\ pc = "msk_response"
    /\ LET res == parse_voyage_rows(msk_response)
       IN  /\ msk_voyage_rows' = res.rows
           /\ msk_raised' = res.raised
           /\ pc' = IF res.raised = "none" THEN "msk_voyages" ELSE "msk_failed"
    /\ UNCHANGED <<calVars, colVars, cslFrame, msk_response, msk_leg_rows, restVars>>

\* save_to_excel: leg_rows = parse_leg_rows(response_json)
ParseLegRows ==
    /\ pc = "msk_voyages"
    /\ LET res == parse_leg_rows(msk_response)
       IN  /\ msk_leg_rows' = res.rows
           /\ msk_raised' = res.raised
           /\ pc' = IF res.raised = "none" THEN "msk_legs" ELSE "msk_failed"
    /\ UNCHANGED <<calVars, colVars, cslFrame, msk_response, msk_voyage_rows, restVars>>

NextMaersk == ParseVoyageRows \/ ParseLegRows

SpecMaersk == InitMaersk /\ [][NextMaersk]_vars

(***************************************************************************)
(* SpecMsc: save_json_to_excel parses one MSC response into voyage rows.   *)
(* The sailings of the response have Routes lists of every length, Routes  *)
(* that is missing, null or no list, and elements that are no dicts.       *)
(***************************************************************************)
MscLeg ==
    JDict([DeparturePortName |-> JStr(SHA), ArrivalPortName |-> JStr(RTM),
           Vessel |-> JDict([VesselName |-> JStr(VesselName1)])])

MscRoute ==
    JDict([DepartureVoyageNo |-> JStr(Voy1),
           CutOffs |-> JDict([ReeferCutOffDate |-> JStr(<<"t", "1">>)]),
           RouteScheduleLegDetails |-> JList(<<MscLeg>>)])

\* an element of Routes: a route, or a value that is no dict
MscRouteChoices == {MscRoute, JStr(SHA)}

MscRouteLists == UNION {[1..n -> MscRouteChoices] : n \in 0..MaxRoutes}

\* sailings with a Routes list, with Routes missing, null or a string, and
\* an element of Data that is no dict
MscSailingChoices ==
    {JDict([RouteHeaderId |-> JNum(1), PortOfLoad |-> JStr(SHA), Routes |-> JList(routes)]) :
        routes \in MscRouteLists}
    \cup {JDict([RouteHeaderId |-> JNum(2), PortOfLoad |-> JStr(SHA)]),
          JDict([RouteHeaderId |-> JNum(3), PortOfLoad |-> JStr(SHA), Routes |-> JNone]),
          JDict([RouteHeaderId |-> JNum(4), PortOfLoad |-> JStr(SHA), Routes |-> JStr(RTM)]),
          JStr(SHA)}

InitMsc ==
    /\ pc = "msc_response"
    /\ CalIdle
    /\ ColIdle
    /\ CslIdle
    /\ MskIdle
    /\ \E n \in 0..MaxSailings : \E sailings \in [1..n -> MscSailingChoices] :
          msc_response = JDict([Data |-> JList(sailings)])
    /\ msc_voyage_rows = <<>>
    /\ msc_raised = "none"
    /\ TableIdle

\* save_json_to_excel: rows = parse_voyage_rows(response_json)
ParseMscVoyageRows ==
    /\ pc = "msc_response"
    /\ LET res == msc_parse_voyage_rows(msc_response)
       IN  /\ msc_voyage_rows' = res.rows
           /\ msc_raised' = res.raised
           /\ pc' = IF res.raised = "none" THEN "msc_voyages" ELSE "msc_failed"
    /\ UNCHANGED <<calVars, colVars, cslFrame, mskVars, msc_response, tableFrame>>

NextMsc == ParseMscVoyageRows

SpecMsc == InitMsc /\ [][NextMsc]_vars

(***************************************************************************)
(* SpecNested: the MSC and Maersk parsers applied to responses in which    *)
(* one node they read is missing, null, a string, a number, a list or a    *)
(* dict, all other nodes being as the carrier sends them.                  *)
(***************************************************************************)
\* a key that is not there
Absent == [t |-> "absent"]

\* values of every JSON type
PresentNodes ==
    {JNone, JStr(SHA), JNum(1), JList(<<>>), JList(<<JStr(SHA)>>), JList(<<JNum(1)>>),
     JDict(<<>>), JDict([code |-> JNum(404)])}

AnyNodes == PresentNodes \cup {Absent}

\* the dict with these fields and the node at the key, or without the key
Put(fields, key, node) ==
    IF node.t = "absent" THEN JDict([k \in DOMAIN fields \ {key} |-> fields[k]])
    ELSE JDict([k \in DOMAIN fields \cup {key} |-> IF k = key THEN node ELSE fields[k]])

MscLegWith(vessel) ==
    Put([DeparturePortName |-> JStr(SHA), ArrivalPortName |-> JStr(RTM)], "Vessel", vessel)

MscRouteWith(cutoffs, leg_details) ==
    Put(Put([DepartureVoyageNo |-> JStr(Voy1)], "CutOffs", cutoffs).d,
        "RouteScheduleLegDetails", leg_details)

MscSailingWith(routes) ==
    Put([RouteHeaderId |-> JNum(1), PortOfLoad |-> JStr(SHA)], "Routes", routes)

MscBodyWith(key, data) == Put([Success |-> JNum(1)], key, data)

MscNestedBodies ==
    {MscBodyWith(key, data) : key \in {"Data", "data"}, data \in AnyNodes}
    \cup PresentNodes
    \cup {MscBodyWith("Data", JList(<<sailing>>)) : sailing \in PresentNodes}
    \cup {MscBodyWith("Data", JList(<<MscSailingWith(routes)>>)) : routes \in AnyNodes}
    \cup {MscBodyWith("Data", JList(<<MscSailingWith(JList(<<route>>))>>)) :
             route \in PresentNodes}
    \cup {MscBodyWith("Data", JList(<<MscSailingWith(JList(<<MscRouteWith(cutoffs, leg_details)>>))>>)) :
             cutoffs \in AnyNodes, leg_details \in {JList(<<MscLeg>>)}}
    \cup {MscBodyWith("Data", JList(<<MscSailingWith(JList(<<MscRouteWith(MscRoute.d.CutOffs, leg_details)>>))>>)) :
             leg_details \in AnyNodes}
    \cup {MscBodyWith("Data", JList(<<MscSailingWith(JList(<<MscRouteWith(MscRoute.d.CutOffs, JList(<<leg>>))>>))>>)) :
             leg \in PresentNodes \cup {MscLegWith(vessel) : vessel \in AnyNodes}}

MskFacilityWith(codes) ==
    Put([facilityCode |-> JStr(SHA)], "alternativeCodes", codes)

MskPortCallWith(location, arrival_service) ==
    Put(Put([departureVoyageNumber |-> JStr(<<"6", "0", "8", "W">>)],
            "location", location).d,
        "arrivalService", arrival_service)

MskLocationWith(facility) == Put([locationId |-> JNum(1)], "facility", facility)

GoodAltCodes ==
    JList(<<JDict([alternativeCodeType |-> JStr(GEO_ID), alternativeCode |-> JStr(<<"G", "1">>)])>>)

GoodArrivalService == JDict([serviceCode |-> JStr(<<"A", "E", "7">>)])

\* the port calls in which one node is of any type
MskPortCalls ==
    AnyNodes
    \cup {MskPortCallWith(location, GoodArrivalService) : location \in AnyNodes}
    \cup {MskPortCallWith(MskLocationWith(facility), GoodArrivalService) :
             facility \in AnyNodes}
    \cup {MskPortCallWith(MskLocationWith(MskFacilityWith(codes)), GoodArrivalService) :
             codes \in AnyNodes \cup {GoodAltCodes}}
    \cup {MskPortCallWith(MskLocationWith(MskFacilityWith(JList(<<code>>))), GoodArrivalService) :
             code \in PresentNodes}
    \cup {MskPortCallWith(MskLocationWith(MskFacilityWith(GoodAltCodes)), arrival_service) :
             arrival_service \in AnyNodes}

MskCarriageWith(port_call) ==
    Put([vessel |-> JDict([vesselName |-> JStr(VesselName1)])], "vesselPortCallStart", port_call)

MskLegWith(carriage) == Put([routingLegIdentifier |-> JStr(<<"L", "1">>)], "carriage", carriage)

\* a first leg whose end port call only parse_leg_rows reads
MskLegEndingAt(port_call) ==
    JDict([routingLegIdentifier |-> JStr(<<"L", "0">>),
           carriage |-> Put([carriageType |-> JStr(<<"S", "E", "A">>)],
                            "vesselPortCallEnd", port_call)])

MskRoutingWith(legs, providers) ==
    Put(Put([routingIdentifier |-> JStr(<<"R", "1">>)], "routingLegs", legs).d,
        "routeProviders", providers)

GoodProviders == JList(<<JStr(<<"M", "S", "K">>)>>)

MskBodyWith(routings) == Put([requestId |-> JNum(1)], "routings", routings)

MskNestedBodies ==
    {MskBodyWith(routings) : routings \in AnyNodes}
    \cup PresentNodes
    \cup {MskBodyWith(JList(<<routing>>)) : routing \in PresentNodes}
    \cup {MskBodyWith(JList(<<MskRoutingWith(legs, GoodProviders)>>)) : legs \in AnyNodes}
    \cup {MskBodyWith(JList(<<MskRoutingWith(JList(<<OceanLeg>>), providers)>>)) :
             providers \in AnyNodes}
    \cup {MskBodyWith(JList(<<MskRoutingWith(JList(<<leg>>), GoodProviders)>>)) :
             leg \in PresentNodes \cup {MskLegWith(carriage) : carriage \in AnyNodes}}
    \cup {MskBodyWith(JList(<<MskRoutingWith(JList(<<MskLegWith(MskCarriageWith(port_call))>>),
                                            GoodProviders)>>)) :
             port_call \in MskPortCalls}
    \cup {MskBodyWith(JList(<<MskRoutingWith(JList(<<MskLegEndingAt(port_call), OceanLeg>>),
                                            GoodProviders)>>)) :
             port_call \in MskPortCalls}

InitNested ==
    /\ CalIdle
    /\ TableIdle
    /\ ColIdle
    /\ CslIdle
    /\ msk_voyage_rows = <<>>
    /\ msk_leg_rows = <<>>
    /\ msk_raised = "none"
    /\ msc_voyage_rows = <<>>
    /\ msc_raised = "none"
    /\ \/ /\ pc = "msc_response"
          /\ msc_response \in MscNestedBodies
          /\ msk_response = NoResponse
       \/ /\ pc = "msk_response"
          /\ msk_response \in MskNestedBodies
          /\ msc_response = NoResponse

NextNested == ParseMscVoyageRows \/ ParseVoyageRows \/ ParseLegRows

SpecNested == InitNested /\ [][NextNested]_vars

(***************************************************************************)
(* SpecKey: make_unique_key applied to a table of scraped rows.            *)
(***************************************************************************)
Chars100 == <<"1", "0", "0">>
Chars200 == <<"2", "0", "0">>
March7 == <<"2", "0", "2", "6", "/", "0", "3", "/", "0", "7">>
March14 == <<"2", "0", "2", "6", "/", "0", "3", "/", "1", "4">>
Delay == <<" ", "2", " ", "d", "a", "y", "(", "s", ")", " ", "d", "e", "l", "a", "y">>

\* the ID cells and the Origin ETD cells of the result table
IdCells == {Chars100, Chars100 \o <<" ">>, Chars200, None}

EtdCells ==
    {March7, March7 \o <<" ", "1", "4", ":", "0", "0">>, March7 \o Delay, March14,
     <<"T", "B", "A">>, None}

CapacityCell == <<"1", "0">>

ScheduleColumns == <<"ID", "Origin ETD", "Capacity">>

ScheduleRow(id, etd, capacity) ==
    [c \in {"ID", "Origin ETD", "Capacity"} |->
        CASE c = "ID" -> id [] c = "Origin ETD" -> etd [] OTHER -> capacity]

KeyRowChoices == {ScheduleRow(id, etd, CapacityCell) : id \in IdCells, etd \in EtdCells}

\* a table without the ID and Origin ETD columns
OtherColumns == <<"Vessel", "Capacity">>

OtherRowChoices ==
    {[c \in {"Vessel", "Capacity"} |-> IF c = "Vessel" THEN vessel ELSE CapacityCell] :
        vessel \in {<<"E", "v", "e", "r">>, <<"E", "V", "E", "R", " ">>, None}}

InitKey ==
    /\ pc = "key_df"
    /\ CalIdle
    /\ ColIdle
    /\ CslIdle
    /\ MskIdle
    /\ MscIdle
    /\ MoreIdle
    /\ \E n \in 0..MaxKeyRows :
          \/ \E rows \in [1..n -> KeyRowChoices] :
                key_df = [columns |-> ScheduleColumns, rows |-> rows]
          \/ \E rows \in [1..n -> OtherRowChoices] :
                key_df = [columns |-> OtherColumns, rows |-> rows]
    /\ row_keys = <<>>
    /\ FetchIdle
    /\ SumIdle

MakeUniqueKey ==
    /\ pc = "key_df"
    /\ row_keys' = make_unique_key(key_df)
    /\ pc' = "keys"
    /\ UNCHANGED <<calVars, colVars, cslFrame, mskVars, mscVars, key_df, fetchVars, sumVars, moreVars>>

NextKey == MakeUniqueKey

SpecKey == InitKey /\ [][NextKey]_vars

(***************************************************************************)
(* SpecFetch: main queries the site for one roster route after another,    *)
(* reads the result pages of each query with fetch_all_pages and merges    *)
(* the results.                                                            *)
(***************************************************************************)
RosterColumns == <<"route_name", "ID", "origin", "destination", "consortium">>

RosterRow(route_name, id, destination, consortium) ==
    [c \in {"route_name", "ID", "origin", "destination", "consortium"} |->
        CASE c = "route_name" -> route_name
          [] c = "ID" -> id
          [] c = "origin" -> SHA
          [] c = "destination" -> destination
          [] OTHER -> consortium]

OceanAlliance == <<"O", "A">>
Gemini == <<"G", "E", "M">>

\* one service queried for two destinations
FetchRoster ==
    [columns |-> RosterColumns,
     rows |-> <<RosterRow(AEU1, 100, RTM, OceanAlliance),
                RosterRow(AEU1, 100, SIN, OceanAlliance)>>]

\* the rows a result page can show: one sailing, the same sailing with a
\* delay annotation and another capacity, a later sailing
FetchRowChoices ==
    {ScheduleRow(Chars100, March7, <<"1", "0">>),
     ScheduleRow(Chars100, March7 \o Delay, <<"2", "0">>),
     ScheduleRow(Chars100, March14, <<"1", "0">>)}

\* the rows in the given place (query, page)
RowsAt(rows, place, s) ==
    LET idx == SelectSeq([k \in 1..Len(rows) |-> k], LAMBDA k : place[k] = s)
    IN  [j \in 1..Len(idx) |-> rows[idx[j]]]

\* the pages of the queries: every query shows at least one page, a page
\* without rows being the header alone
SiteOf(rows, place, queries) ==
    [q \in 1..queries |->
        LET used == {p \in 1..MaxPages : \E k \in 1..Len(rows) : place[k] = (q - 1) * MaxPages + p}
            pages == IF used = {} THEN 1 ELSE CHOOSE p \in used : \A o \in used : o <= p
        IN  [p \in 1..pages |->
                [columns |-> ScheduleColumns,
                 rows |-> RowsAt(rows, place, (q - 1) * MaxPages + p)]]]

InitFetch ==
    /\ pc = "main_loop"
    /\ CalIdle
    /\ ColIdle
    /\ CslIdle
    /\ MskIdle
    /\ MscIdle
    /\ MoreIdle
    /\ KeyIdle
    /\ SumIdle
    /\ routes_df = FetchRoster
    /\ \E n \in 0..MaxFetched : \E rows \in [1..n -> FetchRowChoices] :
          \E place \in [1..n -> 1..(Len(FetchRoster.rows) * MaxPages)] :
              /\ \A k \in 1..(n - 1) : place[k] <= place[k + 1]
              \* a page after the first has rows only if the page before it has
              /\ \A k \in 1..n :
                    (place[k] - 1) % MaxPages # 0 => \E j \in 1..n : place[j] = place[k] - 1
              /\ site = SiteOf(rows, place, Len(FetchRoster.rows))
    /\ route_idx = 1
    /\ site_page = 0
    /\ seen_row_keys = {}
    /\ dfs = <<>>
    /\ all_details = <<>>
    /\ detail_df = EmptyFrame

fetchFrame == <<calVars, colVars, cslFrame, mskVars, mscVars, keyVars, sumVars, moreVars>>

\* main: the search of the next route shows the first page of its results
StartQuery ==
    /\ pc = "main_loop"
    /\ route_idx <= Len(routes_df.rows)
    /\ site_page' = 1
    /\ dfs' = <<>>
    /\ seen_row_keys' = {}
    /\ pc' = "fetch"
    /\ UNCHANGED <<fetchFrame, routes_df, site, route_idx, all_details, detail_df>>

\* fetch_all_pages: one round of the "while True" loop
FetchPage ==
    /\ pc = "fetch"
    /\ Len(dfs) < MaxVisits
    /\ LET res == DedupPage(site[route_idx][site_page], seen_row_keys)
           current_page == site_page
           new_page == IF site_page < Len(site[route_idx]) THEN site_page + 1 ELSE 1
       IN  /\ dfs' = Append(dfs, res.df)
           /\ seen_row_keys' = res.seen
           /\ \/ /\ site_page' = site_page      \* no next link, or the click fails
                 /\ pc' = "fetched"
              \/ /\ site_page' = new_page
                 /\ pc' = IF current_page # 1 /\ new_page = 1 THEN "fetched" ELSE "fetch"
    /\ UNCHANGED <<fetchFrame, routes_df, site, route_idx, all_details, detail_df>>

\* fetch_all_pages returns; main keeps the rows of the route
FetchReturn ==
    /\ pc = "fetched"
    /\ LET fetched == FetchedFrame(dfs)
           detail == IF DfEmpty(fetched) THEN fetched
                     ELSE RowsOfRoute(fetched, routes_df.rows[route_idx]["ID"])
       IN  all_details' = IF DfEmpty(detail) THEN all_details ELSE Append(all_details, detail)
    /\ route_idx' = route_idx + 1
    /\ dfs' = <<>>
    /\ seen_row_keys' = {}
    /\ pc' = "main_loop"
    /\ UNCHANGED <<fetchFrame, routes_df, site, site_page, detail_df>>

\* main: the query of the route raises; the route is skipped with a warning
QueryFails ==
    /\ \/ pc = "main_loop" /\ route_idx <= Len(routes_df.rows)
       \/ pc = "fetch"
    /\ route_idx' = route_idx + 1
    /\ dfs' = <<>>
    /\ seen_row_keys' = {}
    /\ pc' = "main_loop"
    /\ UNCHANGED <<fetchFrame, routes_df, site, site_page, all_details, detail_df>>

\* main: the results of the queries are concatenated and deduplicated
MergeDetails ==
    /\ pc = "main_loop"
    /\ route_idx > Len(routes_df.rows)
    /\ detail_df' = MergedDetails(all_details)
    /\ pc' = "merged"
    /\ UNCHANGED <<fetchFrame, routes_df, site, route_idx, site_page, seen_row_keys, dfs,
                   all_details>>

NextFetch == StartQuery \/ FetchPage \/ FetchReturn \/ QueryFails \/ MergeDetails

SpecFetch == InitFetch /\ [][NextFetch]_vars

(***************************************************************************)
(* SpecSummary: summarize_capacity applied to a table of scraped rows and  *)
(* a roster, and applied again to the same arguments; main then writes     *)
(* the ByConsortium table.                                                 *)
(***************************************************************************)
AEU3 == <<"A", "E", "U", "3">>
Chars999 == <<"9", "9", "9">>
Chars150 == <<"1", "5", "0">>
Chars80 == <<"8", "0">>
March6 == <<"2", "0", "2", "6", "/", "0", "3", "/", "0", "6">>
March13 == <<"2", "0", "2", "6", "/", "0", "3", "/", "1", "3">>
March20 == <<"2", "0", "2", "6", "/", "0", "3", "/", "2", "0">>
March21 == <<"2", "0", "2", "6", "/", "0", "3", "/", "2", "1">>

\* dt.date.today() of the run: a Tuesday, in the week of 7 to 13 March
SummaryToday == [year |-> 2026, month |-> 3, day |-> 10]

\* build_week_columns(start_week_no, weeks_ahead)
WeekColumns(start, n) ==
    [k \in 1..n |-> week_label(start + k - 1, week_start_date(start + k - 1),
                               week_end_date(week_start_date(start + k - 1)))]

\* two services of one consortium and one of another
UniqueRoster ==
    [columns |-> RosterColumns,
     rows |-> <<RosterRow(AEU1, 100, RTM, OceanAlliance),
                RosterRow(AEM1, 200, RTM, OceanAlliance),
                RosterRow(AEU3, 300, SIN, Gemini)>>]

\* one ID on two roster rows that carry different consortium tags
SharedIdRoster ==
    [columns |-> RosterColumns,
     rows |-> <<RosterRow(AEU1, 100, RTM, OceanAlliance),
                RosterRow(AEU1, 100, SIN, Gemini)>>]

Rosters == {UniqueRoster, SharedIdRoster}

\* rows of route 100 on the first and on the last day of the week of today,
\* on the day before that week and on the first day of the second week
\* after it; a row of route 200 on the last day of the week after that of
\* today; a row whose ID is not on the roster and one whose ID has no digit
SummaryRowChoices ==
    {ScheduleRow(Chars100, March7, Chars200),
     ScheduleRow(Chars100, March13 \o Delay, Chars150),
     ScheduleRow(Chars100, March6, Chars200),
     ScheduleRow(Chars100, March21, Chars200),
     ScheduleRow(Chars200, March20, Chars80),
     ScheduleRow(Chars999, March7, Chars200),
     ScheduleRow(<<"N", "/", "A">>, March7, Chars200)}

\* main before summarize_capacity: the week columns are built
WindowBuilt ==
    /\ today = SummaryToday
    /\ start_week_no = current_week_no(today)
    /\ weeks_ahead = MaxWindow
    /\ i = weeks_ahead
    /\ wn = start_week_no + weeks_ahead - 1
    /\ wk_start = week_start_date(wn)
    /\ wk_end = week_end_date(wk_start)
    /\ cols = WeekColumns(start_week_no, weeks_ahead)

InitSummary ==
    /\ pc = "merged"
    /\ CalIdle
    /\ CslIdle
    /\ MskIdle
    /\ MscIdle
    /\ MoreIdle
    /\ KeyIdle
    /\ SumIdle
    /\ WindowBuilt
    /\ routes_df \in Rosters
    /\ site = <<>>
    /\ route_idx = Len(routes_df.rows) + 1
    /\ site_page = 0
    /\ seen_row_keys = {}
    /\ dfs = <<>>
    /\ all_details = <<>>
    /\ \E n \in 0..MaxDetailRows : \E rows \in [1..n -> SummaryRowChoices] :
          detail_df = [columns |-> ScheduleColumns, rows |-> rows]

sumFrame == <<calVars, colVars, cslFrame, mskVars, mscVars, keyVars, moreVars, site, route_idx,
              site_page, seen_row_keys, dfs, all_details, detail_df>>

\* the table the name "out" refers to
OutTable == IF out_ref = "routes_df" THEN routes_df ELSE out

\* an assignment to the table that "out" refers to
StoreOut(ref, value) ==
    IF ref = "routes_df"
    THEN routes_df' = value /\ out' = out
    ELSE out' = value /\ routes_df' = routes_df

\* summarize_capacity up to the write-back loop
SummarizeBody ==
    IF MissingColumns(detail_df) # <<>>
    THEN /\ sum_raised' = "KeyError"
         /\ pc' = "failed"
         /\ UNCHANGED <<routes_df, g_cap, g_pos, out, out_ref, result_df, prev_result_df,
                        summaries, consortium_df>>
    ELSE /\ g_cap' = GroupCapacity(WorkingRows(detail_df, ValidIds(routes_df),
                                                start_week_no, Len(cols)))
         /\ g_pos' = 1
         /\ out_ref' = routes_df_copy
         /\ StoreOut(out_ref', ZeroColumns(routes_df, cols))
         /\ pc' = "write_back"
         /\ UNCHANGED <<result_df, prev_result_df, summaries, consortium_df, sum_raised>>

\* main: result_df = summarize_capacity(detail_df, routes_df, ...)
SummarizeCall ==
    /\ pc = "merged"
    /\ SummarizeBody
    /\ UNCHANGED sumFrame

\* one iteration of "for _, row in g_cap.iterrows()"
WriteBack ==
    /\ pc = "write_back"
    /\ g_pos <= Len(g_cap)
    /\ LET row == g_cap[g_pos]
           col == ColumnAt(row.week_idx, Len(cols))
       IN  IF col = 0
           THEN /\ sum_raised' = "IndexError"
                /\ pc' = "failed"
                /\ UNCHANGED <<routes_df, out, g_pos>>
           ELSE /\ StoreOut(out_ref, WriteCell(OutTable, row.ID, col, row.Capacity))
                /\ g_pos' = g_pos + 1
                /\ UNCHANGED <<pc, sum_raised>>
    /\ UNCHANGED <<sumFrame, g_cap, out_ref, result_df, prev_result_df, summaries,
                   consortium_df>>

\* the end of the loop: return out[[col_route, col_id] + week_cols]
SummarizeReturn ==
    /\ pc = "write_back"
    /\ g_pos > Len(g_cap)
    /\ result_df' = SelectColumns(OutTable)
    /\ prev_result_df' = result_df
    /\ summaries' = summaries + 1
    /\ pc' = "summarized"
    /\ UNCHANGED <<sumFrame, routes_df, g_cap, g_pos, out, out_ref, consortium_df,
                   sum_raised>>

\* summarize_capacity called once more with the same arguments
SummarizeAgain ==
    /\ pc = "summarized"
    /\ summaries < MaxSummaries
    /\ SummarizeBody
    /\ UNCHANGED sumFrame

\* main: the ByConsortium sheet of a roster that has a consortium column
ByConsortium ==
    /\ pc = "summarized"
    /\ HasColumn(routes_df, "consortium")
    /\ consortium_df' = ByConsortiumTable(routes_df, result_df)
    /\ pc' = "written"
    /\ UNCHANGED <<sumFrame, routes_df, g_cap, g_pos, out, out_ref, result_df,
                   prev_result_df, summaries, sum_raised>>

NextSummary ==
    SummarizeCall \/ WriteBack \/ SummarizeReturn \/ SummarizeAgain \/ ByConsortium

SpecSummary == InitSummary /\ [][NextSummary]_vars

(***************************************************************************)
(* SpecRun: main after the route loop: the results of the queries are      *)
(* merged, summarised and written.                                         *)
(***************************************************************************)
\* all_details after the route loop: for every roster row in turn the rows
\* of the site that carry its ID, if there are any
DetailsOf(rows, roster) ==
    LET shown == [columns |-> ScheduleColumns, rows |-> rows]
        perRoute == [r \in 1..Len(roster.rows) |-> RowsOfRoute(shown, roster.rows[r]["ID"])]
    IN  SelectSeq(perRoute, LAMBDA detail : ~DfEmpty(detail))

InitRun ==
    /\ pc = "main_loop"
    /\ CalIdle
    /\ CslIdle
    /\ MskIdle
    /\ MscIdle
    /\ MoreIdle
    /\ KeyIdle
    /\ SumIdle
    /\ WindowBuilt
    /\ routes_df \in Rosters
    /\ site = <<>>
    /\ route_idx = Len(routes_df.rows) + 1
    /\ site_page = 0
    /\ seen_row_keys = {}
    /\ dfs = <<>>
    /\ \E n \in 0..MaxDetailRows : \E rows \in [1..n -> SummaryRowChoices] :
          all_details = DetailsOf(rows, routes_df)
    /\ detail_df = EmptyFrame

NextRun == MergeDetails \/ SummarizeCall \/ WriteBack \/ SummarizeReturn \/ ByConsortium

SpecRun == InitRun /\ [][NextRun]_vars

(***************************************************************************)
(* SpecRoster: load_routes applied to the sheet of data.xlsx.              *)
(***************************************************************************)

SheetColumns == RosterColumns \o <<"note">>

\* what the ID column of the sheet can hold: numbers, texts that are
\* numbers, with and without blanks, a text that is none, an empty cell
SheetIdCells ==
    {IntCell(100), IntCell(200), StrCell(Chars100), StrCell(<<" ", "2", "0", "0">>),
     StrCell(<<"1", "0", "0", "a">>), NaNCell}

SheetNameCells == {StrCell(AEU1), NaNCell}

SheetRow(name, id, ncols) ==
    SubSeq(<<name, id, StrCell(SHA), StrCell(<<"R", "T", "M", " ">>), StrCell(OceanAlliance),
             NaNCell>>, 1, ncols)

\* pd.read_excel gives a column of numbers with an empty cell the dtype
\* float64: its ints arrive as floats; a column with a text keeps its values
ReadExcel(sheet) ==
    LET ids == {sheet.rows[r][2] : r \in 1..Len(sheet.rows)}
        as_float == Len(sheet.columns) >= 2
                    /\ (\E c \in ids : c.t = "nan") /\ (\A c \in ids : c.t # "str")
    IN  [columns |-> sheet.columns,
         rows |-> [r \in 1..Len(sheet.rows) |->
                      IF as_float /\ sheet.rows[r][2].t = "int"
                      THEN [sheet.rows[r] EXCEPT ![2] = FloatCell(sheet.rows[r][2].v)]
                      ELSE sheet.rows[r]]]

InitRoster ==
    /\ pc = "sheet"
    /\ CalIdle
    /\ ColIdle
    /\ CslIdle
    /\ MskIdle
    /\ MscIdle
    /\ KeyIdle
    /\ FetchIdle
    /\ SumIdle
    /\ \E ncols \in 3..Len(SheetColumns) : \E n \in 0..MaxSheetRows :
          \E names \in [1..n -> SheetNameCells] : \E ids \in [1..n -> SheetIdCells] :
              template_df = ReadExcel([columns |-> SubSeq(SheetColumns, 1, ncols),
                                       rows |-> [r \in 1..n |-> SheetRow(names[r], ids[r], ncols)]])
    /\ load_raised = "none"
    /\ EzIdle
    /\ CosIdle

\* main: col_route, col_id, ..., routes_df = load_routes(TEMPLATE_XLSX)
LoadRoutes ==
    /\ pc = "sheet"
    /\ LET res == load_routes(template_df)
       IN  /\ load_raised' = res.raised
           /\ routes_df' = IF res.raised = "none" THEN res.value ELSE routes_df
    /\ pc' = "loaded"
    /\ UNCHANGED <<calVars, colVars, cslFrame, mskVars, mscVars, keyVars, sumVars, template_df,
                   ezVars, cosVars, site, route_idx, site_page, seen_row_keys, dfs, all_details, detail_df>>

NextRoster == LoadRoutes

SpecRoster == InitRoster /\ [][NextRoster]_vars

(***************************************************************************)
(* SpecChunks: iter_week_chunks(start, end) run to its end for every pair  *)
(* of dates of a span that holds three week ends, and for missing dates.   *)
(***************************************************************************)

\* the default START_DATE, a Tuesday
ChunkOrigin == [year |-> 2026, month |-> 2, day |-> 10]

ChunkDates == {DatePlusDays(ChunkOrigin, k) : k \in 0..MaxChunkSpan}

InitChunks ==
    /\ pc = "chunks"
    /\ CalIdle
    /\ ColIdle
    /\ CslIdle
    /\ MskIdle
    /\ MscIdle
    /\ KeyIdle
    /\ FetchIdle
    /\ SumIdle
    /\ RosterIdle
    /\ CosIdle
    /\ ScrapeIdle
    /\ EzMainIdle
    /\ ez_start \in ChunkDates \cup {NoDate}
    /\ ez_end \in ChunkDates \cup {NoDate}
    /\ gen_at = "start"
    /\ gen_cur = NoDate
    /\ chunks = <<>>
    /\ ez_raised = "none"

\* what the EZOcean actions leave alone
ezFrame == <<calVars, colVars, cslFrame, mskVars, mscVars, keyVars, fetchVars, sumVars,
             rosterVars, cosVars>>

\* list(iter_week_chunks(start, end)): one call of next()
NextChunk ==
    /\ pc = "chunks"
    /\ LET g == iter_week_chunks(ez_start, ez_end, gen_at, gen_cur)
       IN  /\ gen_at' = g.at
           /\ gen_cur' = g.cur
           /\ chunks' = chunks \o g.yielded
           /\ ez_raised' = g.raised
           /\ pc' = IF g.at = "done" THEN "chunks_done" ELSE pc
    /\ UNCHANGED <<ezFrame, ez_start, ez_end, scrapeVars, ezMainVars>>

NextChunks == NextChunk

SpecChunks == InitChunks /\ [][NextChunks]_vars

(***************************************************************************)
(* SpecScrape: scrape_current_query on a query with up to MaxEzPages       *)
(* result pages, for every MAX_PAGES up to MaxPageLimit; a click on "next  *)
(* page" can leave the site on any of its pages.                           *)
(***************************************************************************)

InitScrape ==
    /\ pc = "scrape"
    /\ CalIdle
    /\ ColIdle
    /\ CslIdle
    /\ MskIdle
    /\ MscIdle
    /\ KeyIdle
    /\ FetchIdle
    /\ SumIdle
    /\ RosterIdle
    /\ CosIdle
    /\ GenIdle
    /\ EzMainIdle
    /\ site_filter = NoChunk
    /\ site_pages \in 1..MaxEzPages
    /\ pagination_info \in BOOLEAN
    /\ now_page = 1
    /\ max_pages \in 0..MaxPageLimit
    /\ ez_current_page = 0
    /\ pages_collected = 0
    /\ page_log = <<>>
    /\ all_rows = <<>>

\* scrape_current_query up to its loop: the page shown is collected
ScrapeFirstPage ==
    /\ pc = "scrape"
    /\ \/ /\ all_rows' = <<SiteRow(site_filter, now_page)>>
          /\ ez_current_page' = now_page
          /\ pages_collected' = 1
          /\ page_log' = <<now_page>>
          /\ pc' = "scrape_loop"
          /\ UNCHANGED ez_raised
       \/ /\ ez_raised' = "TimeoutError"      \* the result table does not appear
          /\ pc' = "ez_failed"
          /\ UNCHANGED <<all_rows, ez_current_page, pages_collected, page_log>>
    /\ UNCHANGED <<ezFrame, ez_start, ez_end, gen_at, gen_cur, chunks, site_filter, site_pages,
                   pagination_info, now_page, max_pages, ezMainVars>>

\* scrape_current_query: one round of its "while True" loop
ScrapeNextPage ==
    /\ pc = "scrape_loop"
    /\ LET shown == read_pagination(pagination_info, now_page, site_pages)
       IN  IF \/ PageLimitReached(max_pages, pages_collected)
              \/ shown.known /\ shown.shown_to >= shown.total_rows
           THEN /\ pc' = "scraped"
                /\ UNCHANGED <<now_page, ez_current_page, pages_collected, page_log, all_rows,
                               ez_raised>>
           ELSE \/ /\ pc' = "scraped"             \* no "next page" link
                   /\ UNCHANGED <<now_page, ez_current_page, pages_collected, page_log,
                                  all_rows, ez_raised>>
                \/ /\ ez_raised' \in {"Error", "RuntimeError"}   \* the click raises, or
                   /\ pc' = "ez_failed"                          \* the page is blocked
                   /\ UNCHANGED <<now_page, ez_current_page, pages_collected, page_log,
                                  all_rows>>
                \/ \E new_page \in 1..site_pages :
                      /\ now_page' = new_page
                      /\ UNCHANGED ez_raised
                      /\ IF ~PageAdvanced(new_page, ez_current_page)
                         THEN /\ pc' = "scraped"
                              /\ UNCHANGED <<ez_current_page, pages_collected, page_log,
                                             all_rows>>
                         ELSE /\ ez_current_page' = new_page
                              /\ pages_collected' = pages_collected + 1
                              /\ page_log' = Append(page_log, new_page)
                              /\ all_rows' = Append(all_rows, SiteRow(site_filter, new_page))
                              /\ pc' = IF read_pagination(pagination_info, new_page,
                                                          site_pages).known
                                          /\ Len(all_rows) + 1 >= site_pages
                                       THEN "scraped" ELSE "scrape_loop"
    /\ UNCHANGED <<ezFrame, ez_start, ez_end, gen_at, gen_cur, chunks, site_filter, site_pages,
                   pagination_info, max_pages, ezMainVars>>

NextScrape == ScrapeFirstPage \/ ScrapeNextPage

SpecScrape == InitScrape /\ [][NextScrape]_vars

(***************************************************************************)
(* SpecEzMain: main of ezocean_table_scraper.py: the loop over the chunks  *)
(* of iter_week_chunks, each chunk filtered, scraped and merged.           *)
(***************************************************************************)

\* Tuesday 10, Sunday 15 and Tuesday 17 February 2026
MainDates ==
    {ChunkOrigin, [year |-> 2026, month |-> 2, day |-> 15],
     [year |-> 2026, month |-> 2, day |-> 17]}

InitEzMain ==
    /\ pc = "ez_main"
    /\ CalIdle
    /\ ColIdle
    /\ CslIdle
    /\ MskIdle
    /\ MscIdle
    /\ KeyIdle
    /\ FetchIdle
    /\ SumIdle
    /\ RosterIdle
    /\ CosIdle
    /\ EzMainIdle
    /\ ez_start \in MainDates \cup {NoDate}
    /\ ez_end \in MainDates \cup {NoDate}
    /\ gen_at = "start"
    /\ gen_cur = NoDate
    /\ chunks = <<>>
    /\ ez_raised = "none"
    /\ site_filter = NoChunk
    /\ site_pages \in 1..MaxMainPages
    /\ pagination_info \in BOOLEAN
    /\ now_page = 0
    /\ max_pages \in 0..MaxPageLimit
    /\ ez_current_page = 0
    /\ pages_collected = 0
    /\ page_log = <<>>
    /\ all_rows = <<>>

\* main: the browser is launched and the page loaded, in up to three attempts
EzOpen ==
    /\ pc = "ez_main"
    /\ \/ /\ now_page' = 1
          /\ pc' = "chunk_loop"
          /\ UNCHANGED ez_raised
       \/ /\ ez_raised' = "RuntimeError"       \* blocked on every attempt
          /\ pc' = "ez_failed"
          /\ UNCHANGED now_page
    /\ UNCHANGED <<ezFrame, ez_start, ez_end, gen_at, gen_cur, chunks, site_filter, site_pages,
                   pagination_info, max_pages, ez_current_page, pages_collected, page_log,
                   all_rows, ezMainVars>>

\* main: the for loop takes the next chunk, reloads the page unless the
\* chunk is the first and sets the date filter of a dated chunk
EzNextChunk ==
    /\ pc = "chunk_loop"
    /\ LET g == iter_week_chunks(ez_start, ez_end, gen_at, gen_cur)
           first_period == chunks = <<>>
           reloaded == IF first_period THEN site_filter ELSE NoChunk
       IN  /\ gen_at' = g.at
           /\ gen_cur' = g.cur
           /\ chunks' = chunks \o g.yielded
           /\ IF g.raised # "none"
              THEN /\ ez_raised' = g.raised
                   /\ pc' = "ez_failed"
                   /\ UNCHANGED <<chunk, applied, site_filter, now_page>>
              ELSE IF g.yielded = <<>>
              THEN /\ pc' = "ez_closed"
                   /\ UNCHANGED <<chunk, applied, site_filter, now_page, ez_raised>>
              ELSE /\ chunk' = g.yielded[1]
                   /\ \/ /\ ~first_period       \* reload_base_url() raises
                         /\ ez_raised' = "RuntimeError"
                         /\ pc' = "ez_failed"
                         /\ UNCHANGED <<applied, site_filter, now_page>>
                      \/ /\ UNCHANGED ez_raised
                         /\ now_page' = 1
                         /\ pc' = "scrape"
                         /\ IF g.yielded[1] = NoChunk
                            THEN /\ site_filter' = reloaded
                                 /\ UNCHANGED applied
                            ELSE \/ /\ applied' = TRUE
                                    /\ site_filter' = g.yielded[1]
                                 \/ /\ applied' = FALSE
                                    /\ site_filter' \in {reloaded,
                                                         Chunk(g.yielded[1].from, NoDate)}
    /\ UNCHANGED <<ezFrame, ez_start, ez_end, site_pages, pagination_info, max_pages,
                   ez_current_page, pages_collected, page_log, all_rows, merged_rows>>

\* main: merged_rows.extend(rows) after scrape_current_query returned
EzMergeRows ==
    /\ pc = "scraped"
    /\ merged_rows' = merged_rows \o all_rows
    /\ pc' = "chunk_loop"
    /\ UNCHANGED <<ezFrame, genVars, scrapeVars, chunk, applied>>

\* main: after the loop the browser is closed and the workbook written,
\* unless no row was scraped
EzFinish ==
    /\ pc = "ez_closed"
    /\ IF merged_rows = <<>>
       THEN ez_raised' = "RuntimeError" /\ pc' = "ez_failed"
       ELSE UNCHANGED ez_raised /\ pc' = "ez_written"
    /\ UNCHANGED <<ezFrame, ez_start, ez_end, gen_at, gen_cur, chunks, scrapeVars, ezMainVars>>

NextEzMain == EzOpen \/ EzNextChunk \/ ScrapeFirstPage \/ ScrapeNextPage \/ EzMergeRows \/ EzFinish

SpecEzMain == InitEzMain /\ [][NextEzMain]_vars

(***************************************************************************)
(* SpecLoop: the route loop of main on a roster of two routes with         *)
(* different IDs, the site showing rows of both routes and of a route that *)
(* is not on the roster in the results of either query.                    *)
(***************************************************************************)
LoopRoster ==
    [columns |-> RosterColumns,
     rows |-> <<RosterRow(AEU1, 100, RTM, OceanAlliance),
                RosterRow(AEM1, 200, RTM, OceanAlliance)>>]

\* a row of route 100, a row of route 200 whose ID is written "ID 200", a
\* row of a route that is not on the roster
LoopRowChoices ==
    {ScheduleRow(Chars100, March7, <<"1", "0">>),
     ScheduleRow(<<"I", "D", " ">> \o Chars200, March7, <<"2", "0">>),
     ScheduleRow(Chars999, March14, <<"1", "0">>)}

InitLoop ==
    /\ pc = "main_loop"
    /\ CalIdle
    /\ ColIdle
    /\ CslIdle
    /\ MskIdle
    /\ MscIdle
    /\ MoreIdle
    /\ KeyIdle
    /\ SumIdle
    /\ routes_df = LoopRoster
    /\ \E n \in 0..MaxFetched : \E rows \in [1..n -> LoopRowChoices] :
          \E place \in [1..n -> 1..(Len(LoopRoster.rows) * MaxPages)] :
              /\ \A k \in 1..(n - 1) : place[k] <= place[k + 1]
              /\ \A k \in 1..n :
                    (place[k] - 1) % MaxPages # 0 => \E j \in 1..n : place[j] = place[k] - 1
              /\ site = SiteOf(rows, place, Len(LoopRoster.rows))
    /\ route_idx = 1
    /\ site_page = 0
    /\ seen_row_keys = {}
    /\ dfs = <<>>
    /\ all_details = <<>>
    /\ detail_df = EmptyFrame

SpecLoop == InitLoop /\ [][NextFetch]_vars

(***************************************************************************)
(* SpecCosco: a run of CSL_FETCH.py: main, fetch_response_json step by     *)
(* step with the exceptions its steps can raise, and save_to_excel.        *)
(***************************************************************************)
DEFAULT_SERVICE == AEU1

\* sys.argv[1] if given and not blank, else the default
get_target_service(arg) ==
    IF arg # None /\ Strip(arg) # <<>> THEN Upper(Strip(arg)) ELSE DEFAULT_SERVICE

\* s.startswith(prefix)
StartsWith(s, prefix) == Len(s) >= Len(prefix) /\ SubSeq(s, 1, Len(prefix)) = prefix

\* the trade lane to click, named here by its English name
normalize_service_group(code) ==
    IF StartsWith(Upper(code), <<"A", "E", "U">>) THEN Returned("Far East - North West Europe")
    ELSE IF StartsWith(Upper(code), <<"A", "E", "M">>) THEN Returned("Far East - Mediterranean")
    ELSE Raised("ValueError")

\* word.capitalize()
Capitalize(word) ==
    IF word = <<>> THEN word ELSE <<UpperChar(word[1])>> \o Lower(Tail(word))

\* prettify_port_name of a port name of one word
prettify_port_name(port_name) == Capitalize(Strip(port_name))

\* a service without a rule starts at the port of the first rule of the table
load_service_start_port_or_first(code, table) ==
    Returned(prettify_port_name(SHA))

load_service_start_port(code, table) ==
    LET rule == RuleOf(load_service_rules(table), Upper(code))
    IN  IF rule = NoRule THEN Raised("ValueError")
        ELSE Returned(prettify_port_name(rule.start))

\* the statements of the try block of fetch_response_json
TrySteps ==
    <<"prepare_page", "open_search_page", "save_debug_artifacts", "click_accept_all",
      "click_europe", "click_service_group", "click_service_code", "choose_port",
      "trigger_search", "choose_period_and_capture", "save_debug_artifacts_after">>

\* what a statement of the try block can raise: click_by_text turns every
\* failure into RuntimeError, choose_period_and_capture raises RuntimeError
\* when no response was observed, the others raise what Playwright raises
StepErrors(step) ==
    IF step \in {"click_accept_all", "click_europe", "click_service_group", "click_service_code"}
    THEN {"RuntimeError", "Error"}
    ELSE IF step = "choose_period_and_capture"
    THEN {"PlaywrightTimeoutError", "RuntimeError", "Error"}
    ELSE {"PlaywrightTimeoutError", "Error"}

\* the bodies the portal answers with: no port call, one port call of AEU1,
\* and a JSON list
CosResponses ==
    {ResponseOf(<<>>), ResponseOf(<<PortCallRecord(AEU1, VesselCode1, Voy1, RTM)>>),
     JList(<<>>)}

CosArgs ==
    {None, <<" ">>, <<"a", "e", "u", "1", " ">>, AEM1, <<"A", "E", "U", "9">>,
     <<"M", "E", "X", "1">>}

InitCosco ==
    /\ pc = "cos_main"
    /\ CalIdle
    /\ ColIdle
    /\ VoyIdle
    /\ SliceIdle
    /\ MskIdle
    /\ MscIdle
    /\ KeyIdle
    /\ FetchIdle
    /\ SumIdle
    /\ RosterIdle
    /\ EzIdle
    /\ response_json = NoResponse
    /\ rules_table \in {<<>>, RulesTable}
    /\ voyage_rows = <<>>
    /\ port_call_rows = <<>>
    /\ raised = "none"
    /\ argv \in CosArgs
    /\ target_service = None
    /\ browser = "none"
    /\ cos_step = 0
    /\ pending = "none"
    /\ captured = NoResponse
    /\ parse_invoked = FALSE
    /\ workbook = FALSE
    /\ cos_raised = "none"

cosFrame == <<calVars, colVars, voyVars, sliceVars, mskVars, mscVars, keyVars, fetchVars,
              sumVars, rosterVars, ezVars>>

\* main and fetch_response_json up to the launch of the browser
CosStart ==
    /\ pc = "cos_main"
    /\ LET code == get_target_service(argv)
       IN  /\ target_service' = code
           /\ IF normalize_service_group(code).raised # "none"
              THEN /\ cos_raised' = normalize_service_group(code).raised
                   /\ pc' = "cos_exit"
                   /\ UNCHANGED browser
              ELSE IF load_service_start_port(code, rules_table).raised # "none"
              THEN /\ cos_raised' = load_service_start_port(code, rules_table).raised
                   /\ pc' = "cos_exit"
                   /\ UNCHANGED browser
              ELSE \/ /\ browser' = "launched"
                      /\ pc' = "cos_setup"
                      /\ UNCHANGED cos_raised
                   \/ /\ cos_raised' = "Error"          \* chromium.launch raises
                      /\ pc' = "cos_exit"
                      /\ UNCHANGED browser
    /\ UNCHANGED <<cosFrame, tabVars, argv, cos_step, pending, captured, parse_invoked, workbook>>

\* fetch_response_json: new_context, apply_stealth_async and new_page, the
\* statements between the launch and the try block
CosSetup ==
    /\ pc = "cos_setup"
    /\ \/ /\ cos_step' = 1
          /\ pc' = "cos_try"
          /\ UNCHANGED cos_raised
       \/ /\ cos_raised' = "Error"
          /\ pc' = "cos_exit"
          /\ UNCHANGED cos_step
    /\ UNCHANGED <<cosFrame, tabVars, argv, target_service, browser, pending, captured,
                   parse_invoked, workbook>>

\* fetch_response_json: one statement of the try block
CosTryStep ==
    /\ pc = "cos_try"
    /\ \/ /\ pending' \in StepErrors(TrySteps[cos_step])
          /\ pc' = "cos_except"
          /\ UNCHANGED <<cos_step, captured>>
       \/ /\ IF TrySteps[cos_step] = "choose_period_and_capture"
             THEN captured' \in CosResponses
             ELSE UNCHANGED captured
          /\ IF cos_step = Len(TrySteps)
             THEN pc' = "cos_finally" /\ UNCHANGED cos_step
             ELSE pc' = "cos_try" /\ cos_step' = cos_step + 1
          /\ UNCHANGED pending
    /\ UNCHANGED <<cosFrame, tabVars, argv, target_service, browser, parse_invoked, workbook,
                   cos_raised>>

\* fetch_response_json: the except clauses; saving the debug artifacts can
\* raise in its turn
CosExcept ==
    /\ pc = "cos_except"
    /\ \/ pending' = IF pending = "PlaywrightTimeoutError" THEN "RuntimeError" ELSE pending
       \/ pending' \in {"PlaywrightTimeoutError", "Error"}
    /\ pc' = "cos_finally"
    /\ UNCHANGED <<cosFrame, tabVars, argv, target_service, browser, cos_step, captured,
                   parse_invoked, workbook, cos_raised>>

\* fetch_response_json: the finally clause, then the return or the raise
CosFinally ==
    /\ pc = "cos_finally"
    /\ browser' = "closed"
    /\ IF pending # "none"
       THEN /\ cos_raised' = pending
            /\ pc' = "cos_exit"
            /\ UNCHANGED response_json
       ELSE /\ response_json' = captured
            /\ pc' = "cos_returned"
            /\ UNCHANGED cos_raised
    /\ UNCHANGED <<cosFrame, rules_table, voyage_rows, port_call_rows, raised, argv,
                   target_service, cos_step, pending, captured, parse_invoked, workbook>>

\* main: save_to_excel(response_json)
CosSave ==
    /\ pc = "cos_returned"
    /\ parse_invoked' = TRUE
    /\ LET res == parse_tables(response_json, rules_table)
       IN  /\ voyage_rows' = res.voyage_rows
           /\ port_call_rows' = res.port_call_rows
           /\ raised' = res.raised
           /\ IF res.raised # "none"
              THEN /\ cos_raised' = res.raised
                   /\ pc' = "cos_exit"
                   /\ UNCHANGED workbook
              ELSE \/ /\ workbook' = TRUE
                      /\ pc' = "cos_done"
                      /\ UNCHANGED cos_raised
                   \/ /\ cos_raised' = "OSError"       \* the workbook cannot be written
                      /\ pc' = "cos_exit"
                      /\ UNCHANGED workbook
    /\ UNCHANGED <<cosFrame, response_json, rules_table, argv, target_service, browser, cos_step,
                   pending, captured>>

NextCosco == CosStart \/ CosSetup \/ CosTryStep \/ CosExcept \/ CosFinally \/ CosSave

SpecCosco == InitCosco /\ [][NextCosco]_vars

(***************************************************************************)
(* Calendar reference used by the properties: dates are stepped through    *)
(* the months of the civil calendar, without ordinals.                     *)
(***************************************************************************)
DateLT(a, b) ==
    \/ a.year < b.year
    \/ a.year = b.year /\ a.month < b.month
    \/ a.year = b.year /\ a.month = b.month /\ a.day < b.day

DateLE(a, b) == a = b \/ DateLT(a, b)

FirstOfNextMonth(dt) ==
    IF dt.month = 12 THEN [year |-> dt.year + 1, month |-> 1, day |-> 1]
    ELSE [year |-> dt.year, month |-> dt.month + 1, day |-> 1]

LastOfPrevMonth(dt) ==
    IF dt.month = 1 THEN [year |-> dt.year - 1, month |-> 12, day |-> 31]
    ELSE [year |-> dt.year, month |-> dt.month - 1,
          day |-> DaysInMonth(dt.year, dt.month - 1)]

RECURSIVE CalendarShift(_, _)
CalendarShift(dt, n) ==
    IF n = 0 THEN dt
    ELSE IF n > 0
    THEN LET room == DaysInMonth(dt.year, dt.month) - dt.day
         IN  IF n <= room THEN [dt EXCEPT !.day = @ + n]
             ELSE CalendarShift(FirstOfNextMonth(dt), n - room - 1)
    ELSE IF -n < dt.day THEN [dt EXCEPT !.day = @ + n]
         ELSE CalendarShift(LastOfPrevMonth(dt), n + dt.day)

\* reading a week label back
DigitVal(c) == CHOOSE k \in 0..9 : Digits[k + 1] = c

RECURSIVE ParseNat(_)
ParseNat(s) == IF s = <<>> THEN 0
               ELSE ParseNat(SubSeq(s, 1, Len(s) - 1)) * 10 + DigitVal(s[Len(s)])

ParseInt(s) == IF s # <<>> /\ s[1] = "-" THEN -ParseNat(Tail(s)) ELSE ParseNat(s)

LabelWellFormed(l) ==
    /\ Len(l) >= 15
    /\ l[1] = "W"
    /\ LET t == SubSeq(l, Len(l) - 12, Len(l))
       IN  t[1] = "(" /\ t[4] = "." /\ t[7] = "-" /\ t[10] = "." /\ t[13] = ")"

LabelWeekNo(l) == ParseInt(SubSeq(l, 2, Len(l) - 13))
LabelStartMonth(l) == ParseNat(SubSeq(l, Len(l) - 11, Len(l) - 10))
LabelStartDay(l) == ParseNat(SubSeq(l, Len(l) - 8, Len(l) - 7))
LabelEndMonth(l) == ParseNat(SubSeq(l, Len(l) - 5, Len(l) - 4))
LabelEndDay(l) == ParseNat(SubSeq(l, Len(l) - 2, Len(l) - 1))

(***************************************************************************)
(* C1: week_no_for_date(d) is floor((d - epoch).days / 7) + 1 for every    *)
(* date, also before the epoch: d lies in the 7-day window that starts at  *)
(* epoch + 7 * (week_no - 1), so each date has exactly one week, and a     *)
(* later date never gets a smaller week number.                            *)
(***************************************************************************)
C1_WeekNoIsFloor ==
    d # NoDate =>
        /\ DateLE(CalendarShift(WEEK1_START, 7 * (week_no - 1)), d)
        /\ DateLT(d, CalendarShift(WEEK1_START, 7 * week_no))
        /\ prev_d # NoDate =>
            /\ DateLE(prev_d, d) => prev_week_no <= week_no
            /\ DateLE(d, prev_d) => week_no <= prev_week_no

C1_Witness ==
    /\ d # NoDate
    /\ prev_d # NoDate
    /\ DateLT(d, WEEK1_START)
    /\ DateLT(prev_d, d)
    /\ week_no <= 0
    /\ prev_week_no = week_no

(***************************************************************************)
(* C2: build_week_columns(w, n) returns exactly n labels; the i-th label   *)
(* is for week w + i and spans epoch + (w+i-1)*7 .. epoch + (w+i-1)*7 + 6; *)
(* week numbers increase by one and each span starts the day after the     *)
(* previous one ends.                                                      *)
(***************************************************************************)
C2_WeekColumns ==
    pc = "cols" =>
        /\ Len(cols) = weeks_ahead
        /\ \A k \in 1..Len(cols) :
            LET l == cols[k]
                w == start_week_no + (k - 1)
                s == CalendarShift(WEEK1_START, (w - 1) * 7)
                e == CalendarShift(s, 6)
            IN  /\ LabelWellFormed(l)
                /\ LabelWeekNo(l) = w
                /\ LabelStartMonth(l) = s.month /\ LabelStartDay(l) = s.day
                /\ LabelEndMonth(l) = e.month /\ LabelEndDay(l) = e.day
                /\ k < Len(cols) =>
                    LET nx == CalendarShift(e, 1)
                    IN  /\ LabelWeekNo(cols[k + 1]) = LabelWeekNo(l) + 1
                        /\ LabelStartMonth(cols[k + 1]) = nx.month
                        /\ LabelStartDay(cols[k + 1]) = nx.day

C2_Witness ==
    /\ pc = "cols"
    /\ weeks_ahead = WEEKS_AHEAD
    /\ Len(cols) = WEEKS_AHEAD
    /\ start_week_no < 0

(***************************************************************************)
(* C3: week 1 starts on 2026-01-03, the first Saturday of 2026, and every  *)
(* week column's start date is a Saturday (weekday 5) and its end date the *)
(* following Friday (weekday 4), for positive and non-positive week        *)
(* numbers alike.                                                          *)
(***************************************************************************)
C3_SaturdayToFriday ==
    /\ WEEK1_START = [year |-> 2026, month |-> 1, day |-> 3]
    /\ Weekday(WEEK1_START) = 5
    /\ \A k \in 1..(WEEK1_START.day - 1) :
          Weekday([WEEK1_START EXCEPT !.day = k]) # 5
    /\ (pc \in {"loop", "cols"} /\ i > 0) =>
        /\ wn = start_week_no + (i - 1)
        /\ Weekday(wk_start) = 5
        /\ Weekday(wk_end) = 4
        /\ wk_end = CalendarShift(wk_start, 6)
        /\ wn = 1 => wk_start = WEEK1_START

C3_Witness ==
    /\ pc = "loop"
    /\ i > 1
    /\ wn <= 0
    /\ wk_start.year < WEEK1_START.year
    /\ wk_end.year = WEEK1_START.year

(***************************************************************************)
(* String reference used by the properties: trimming and splitting told    *)
(* by positions.                                                           *)
(***************************************************************************)
\* t is s without its leading and trailing blanks
IsTrimOf(t, s) ==
    /\ Len(t) <= Len(s)
    /\ t # <<>> => ~IsSpace(t[1]) /\ ~IsSpace(t[Len(t)])
    /\ \E a \in 0..(Len(s) - Len(t)) :
        /\ \A k \in 1..Len(t) : t[k] = s[a + k]
        /\ \A k \in 1..a : IsSpace(s[k])
        /\ \A k \in (a + Len(t) + 1)..Len(s) : IsSpace(s[k])

IsBlank(s) == \A k \in 1..Len(s) : IsSpace(s[k])

\* positions of the separators of s, with both ends added
CutsOf(s, sep) == {0, Len(s) + 1} \cup {k \in 1..Len(s) : s[k] = sep}

NumParts(s, sep) == Cardinality(CutsOf(s, sep)) - 1

\* the j-th piece of s between two neighbouring cuts
PartOf(s, sep, j) ==
    LET cuts == CutsOf(s, sep)
        lo == CHOOSE c \in cuts : Cardinality({x \in cuts : x < c}) = j - 1
        hi == CHOOSE c \in cuts : Cardinality({x \in cuts : x < c}) = j
    IN  SubSeq(s, lo + 1, hi - 1)

EndsInW(s) ==
    \E t \in {SubSeq(s, a, b) : a \in 1..(Len(s) + 1), b \in 0..Len(s)} :
        IsTrimOf(t, s) /\ t # <<>> /\ t[Len(t)] \in {"W", "w"}

(***************************************************************************)
(* C7: extract_westbound_voyage splits the raw voyage on "/" and returns   *)
(* the first part, in order, whose trimmed text ends with W or w; with no  *)
(* such part it returns the first part trimmed; a missing or blank voyage  *)
(* gives the empty string.                                                 *)
(***************************************************************************)
C7_WestboundVoyage ==
    pc = "voyage" =>
        IF voyage = None \/ IsBlank(voyage) THEN westbound = <<>>
        ELSE LET n == NumParts(voyage, "/")
                 ws == {j \in 1..n : EndsInW(PartOf(voyage, "/", j))}
                 first == CHOOSE j \in ws : \A k \in ws : j <= k
             IN  IF ws # {} THEN IsTrimOf(westbound, PartOf(voyage, "/", first))
                 ELSE IsTrimOf(westbound, PartOf(voyage, "/", 1))

\* a part ending in lower-case w is picked over a later part ending in W
C7_Witness ==
    /\ pc = "voyage"
    /\ voyage = <<"1", "w", "/", "W">>
    /\ westbound = <<"1", "w">>

(***************************************************************************)
(* C4: for a non-empty call sequence and a service rule,                   *)
(* slice_westbound_calls returns the calls up to and including the FIRST   *)
(* one whose trimmed, upper-cased port name is the rule's end port, in     *)
(* their order, renumbered 1..n and tagged Direction = W; nothing after    *)
(* that call is returned, even when the end port occurs again.             *)
(***************************************************************************)
\* the trimmed, upper-cased name is the port
NameIs(name, port) ==
    /\ name # None
    /\ \E t \in {SubSeq(name, a, b) : a \in 1..(Len(name) + 1), b \in 0..Len(name)} :
          IsTrimOf(t, name) /\ Len(t) = Len(port)
              /\ \A k \in 1..Len(t) : UpperChar(t[k]) = port[k]

C4_SliceToFirstEndPort ==
    (pc = "sliced" /\ calls # <<>> /\ service_rule # NoRule) =>
        LET ends == {k \in 1..Len(calls) : NameIs(calls[k].PortName, service_rule.end)}
            first == CHOOSE k \in ends : \A j \in ends : k <= j
        IN  ends # {} =>
                /\ Len(westbound_calls) = first
                /\ \A k \in 1..first :
                    /\ DOMAIN westbound_calls[k] = DOMAIN calls[k] \cup {"Direction"}
                    /\ westbound_calls[k].PortCallSeq = k
                    /\ westbound_calls[k].Direction = <<"W">>
                    /\ \A f \in DOMAIN calls[k] \ {"PortCallSeq"} :
                          westbound_calls[k][f] = calls[k][f]

\* [SHA, SIN, END, SHA, END] is cut after the first END
C4_Witness ==
    /\ pc = "sliced"
    /\ service_rule # NoRule
    /\ Len(calls) = 5
    /\ calls[3].PortName = RTM
    /\ calls[5].PortName = <<"r", "t", "m", " ">>
    /\ calls[1].PortName = SHA
    /\ calls[2].PortName = SIN
    /\ Len(westbound_calls) = 3
    /\ westbound_calls[3].PortCallSeq = 3

(***************************************************************************)
(* Grouping reference used by the properties: the groups of a response     *)
(* told by the positions of its records.                                   *)
(***************************************************************************)
InputRows == response_json.d.data.d.content.d.data.items

FieldOr(r, key) == IF key \in DOMAIN r THEN r[key] ELSE None

DictIdx == {n \in 1..Len(InputRows) : InputRows[n].t = "dict"}

RefKey(n) ==
    LET r == InputRows[n].d
    IN  <<FieldOr(r, "loopAbbrv"), FieldOr(r, "vesselCode"),
          FieldOr(r, "vesselName"), FieldOr(r, "voy")>>

RefKeys == {RefKey(n) : n \in DictIdx}

IdxOfKey(key) == {n \in DictIdx : RefKey(n) = key}

\* the m-th smallest member of a set of numbers
NthOf(S, m) == CHOOSE x \in S : Cardinality({y \in S : y < x}) = m - 1

FirstIdx(key) == NthOf(IdxOfKey(key), 1)

\* the key that is the j-th to occur in the input
KeyAt(j) ==
    CHOOSE key \in RefKeys :
        Cardinality({k2 \in RefKeys : FirstIdx(k2) < FirstIdx(key)}) = j - 1

\* the call made of the n-th record, the m-th of its group
RefCall(n, m) ==
    LET r == InputRows[n].d
    IN  [LoopAbbrv |-> FieldOr(r, "loopAbbrv"),
         VesselCode |-> FieldOr(r, "vesselCode"),
         VesselName |-> FieldOr(r, "vesselName"),
         Voyage |-> extract_westbound_voyage(FieldOr(r, "voy")),
         PortCallSeq |-> m,
         PortName |-> FieldOr(r, "protName"),
         ArrDtlocAct |-> FieldOr(r, "arrDtlocAct"),
         DepDtlocAct |-> FieldOr(r, "depDtlocAct"),
         ArrDtlocCos |-> FieldOr(r, "arrDtlocCos"),
         DepDtlocCos |-> FieldOr(r, "depDtlocCos")]

RefGroup(key) ==
    [m \in 1..Cardinality(IdxOfKey(key)) |-> RefCall(NthOf(IdxOfKey(key), m), m)]

RefRule(key) == RuleOf(load_service_rules(rules_table), normalize_port_name(key[1]))

RefBlock(key) == slice_westbound_calls(RefGroup(key), RefRule(key))

RECURSIVE ConcatBlocks(_)
ConcatBlocks(j) == IF j = 0 THEN <<>> ELSE ConcatBlocks(j - 1) \o RefBlock(KeyAt(j))

\* the response without the records of one group
RowsWithout(key) ==
    LET keep == (1..Len(InputRows)) \ IdxOfKey(key)
    IN  [m \in 1..Cardinality(keep) |-> InputRows[NthOf(keep, m)]]

HasRuleButNoEndPort(key) ==
    /\ RefRule(key) # NoRule
    /\ \A n \in IdxOfKey(key) :
          ~NameIs(FieldOr(InputRows[n].d, "protName"), RefRule(key).end)

(***************************************************************************)
(* C5: when a rule exists for a group's service code and no call of the    *)
(* group is at the rule's end port, parse_tables raises nothing and emits  *)
(* nothing for the group: its results are those of the same response with  *)
(* the group's records taken out.                                          *)
(***************************************************************************)
C5_NoEndPortNoRows ==
    pc = "tables" =>
        \A key \in RefKeys :
            HasRuleButNoEndPort(key) =>
                /\ raised = "none"
                /\ parse_tables(ResponseOf(RowsWithout(key)), rules_table) =
                      [voyage_rows |-> voyage_rows, port_call_rows |-> port_call_rows,
                       raised |-> "none"]

\* a group that never reaches the end port, interleaved with one that is emitted
C5_Witness ==
    /\ pc = "tables"
    /\ Len(InputRows) = 3
    /\ \E key \in RefKeys :
          /\ HasRuleButNoEndPort(key)
          /\ IdxOfKey(key) = {2}
    /\ Len(voyage_rows) = 1
    /\ Len(port_call_rows) = 2

(***************************************************************************)
(* C6: when no rule exists for a group's normalised service code, every    *)
(* call of the group is emitted, in input order, with the field values and *)
(* the PortCallSeq given at grouping time, and nothing is cut off.         *)
(***************************************************************************)
C6_NoRulePassThrough ==
    pc = "tables" =>
        \A key \in RefKeys :
            RefRule(key) = NoRule =>
                LET idx == IdxOfKey(key)
                    size == Cardinality(idx)
                IN  \E off \in 0..(Len(port_call_rows) - size) :
                        \A m \in 1..size :
                            port_call_rows[off + m] = RefCall(NthOf(idx, m), m)

\* a group without rule that calls at RTM first and goes on
C6_Witness ==
    /\ pc = "tables"
    /\ \E key \in RefKeys :
          /\ RefRule(key) = NoRule
          /\ Cardinality(IdxOfKey(key)) = 2
          /\ FieldOr(InputRows[FirstIdx(key)].d, "protName") = RTM
    /\ \E k \in 1..Len(port_call_rows) :
          /\ k < Len(port_call_rows)
          /\ port_call_rows[k].LoopAbbrv = AEM1
          /\ port_call_rows[k].PortName = RTM
          /\ port_call_rows[k + 1].PortCallSeq = 2

(***************************************************************************)
(* C8: parse_tables groups the records by (loopAbbrv, vesselCode,          *)
(* vesselName, voy) in first-seen order: the voyage rows come in the order *)
(* in which their keys first occur, and the port-call rows of a group are  *)
(* contiguous and in input order, also for interleaved groups.             *)
(***************************************************************************)
C8_FirstSeenGrouping ==
    pc = "tables" =>
        LET nkeys == Cardinality(RefKeys)
            emitted == {j \in 1..nkeys : RefBlock(KeyAt(j)) # <<>>}
        IN  /\ port_call_rows = ConcatBlocks(nkeys)
            /\ Len(voyage_rows) = Cardinality(emitted)
            /\ \A m \in 1..Len(voyage_rows) :
                LET key == KeyAt(NthOf(emitted, m))
                IN  /\ voyage_rows[m].LoopAbbrv = key[1]
                    /\ voyage_rows[m].VesselCode = key[2]
                    /\ voyage_rows[m].VesselName = key[3]
                    /\ voyage_rows[m].Voyage = extract_westbound_voyage(key[4])

\* records of two vessels interleaved: first, second, first
C8_Witness ==
    /\ pc = "tables"
    /\ Len(InputRows) = 3
    /\ DictIdx = {1, 2, 3}
    /\ RefKey(1) = RefKey(3)
    /\ RefKey(1) # RefKey(2)
    /\ Len(voyage_rows) = 2
    /\ Len(port_call_rows) = 3
    /\ voyage_rows[1].VesselCode = VesselCode1
    /\ voyage_rows[2].VesselCode = VesselCode2

(***************************************************************************)
(* C9: the port-call rows come in one block per voyage row, in the order   *)
(* of the voyage rows; the block of a voyage row has exactly PortCallCount *)
(* rows and they carry PortCallSeq 1, 2, ..., PortCallCount, with or       *)
(* without slicing.                                                        *)
(***************************************************************************)
RECURSIVE CallsBefore(_)
CallsBefore(j) == IF j <= 1 THEN 0 ELSE CallsBefore(j - 1) + voyage_rows[j - 1].PortCallCount

C9_PortCallCountAndSeq ==
    pc = "tables" =>
        /\ Len(port_call_rows) = CallsBefore(Len(voyage_rows) + 1)
        /\ \A j \in 1..Len(voyage_rows) :
            /\ voyage_rows[j].PortCallCount >= 1
            /\ \A m \in 1..voyage_rows[j].PortCallCount :
                LET call == port_call_rows[CallsBefore(j) + m]
                IN  /\ call.PortCallSeq = m
                    /\ call.LoopAbbrv = voyage_rows[j].LoopAbbrv
                    /\ call.VesselCode = voyage_rows[j].VesselCode
                    /\ call.VesselName = voyage_rows[j].VesselName
                    /\ call.Voyage = voyage_rows[j].Voyage

\* a sliced group and an unsliced group in one result
C9_Witness ==
    /\ pc = "tables"
    /\ Len(voyage_rows) = 2
    /\ Len(port_call_rows) = 3
    /\ \E j \in 1..2 : voyage_rows[j].PortCallCount = 2
    /\ \E k \in 1..3 : "Direction" \in DOMAIN port_call_rows[k]
    /\ \E k \in 1..3 : "Direction" \notin DOMAIN port_call_rows[k]

(***************************************************************************)
(* C10: for every Maersk routing, parse_leg_rows emits exactly one leg row *)
(* per element of routingLegs, their LegIndex values are 1, 2, ...,        *)
(* LegCount without gaps, and LegCount is the value parse_voyage_rows      *)
(* reports in the routing's voyage row.                                    *)
(***************************************************************************)
MskRoutings == msk_response.d.routings.items

MskDictIdx == {n \in 1..Len(MskRoutings) : MskRoutings[n].t = "dict"}

RECURSIVE LegsBefore(_)
LegsBefore(j) == IF j <= 1 THEN 0 ELSE LegsBefore(j - 1) + msk_voyage_rows[j - 1].LegCount

C10_OneLegRowPerLeg ==
    pc = "msk_legs" =>
        /\ Len(msk_voyage_rows) = Cardinality(MskDictIdx)
        /\ Len(msk_leg_rows) = LegsBefore(Len(msk_voyage_rows) + 1)
        /\ \A j \in 1..Len(msk_voyage_rows) :
            LET route == MskRoutings[NthOf(MskDictIdx, j)]
                legs == IF "routingLegs" \in DOMAIN route.d /\ route.d.routingLegs.t = "list"
                        THEN route.d.routingLegs.items ELSE <<>>
            IN  /\ msk_voyage_rows[j].LegCount = Len(legs)
                /\ \A m \in 1..Len(legs) :
                    /\ LegsBefore(j) + m <= Len(msk_leg_rows)
                    /\ msk_leg_rows[LegsBefore(j) + m].LegIndex = m
                    /\ msk_leg_rows[LegsBefore(j) + m].RoutingIdentifier =
                          msk_voyage_rows[j].RoutingIdentifier

(***************************************************************************)
(* C11.  The path data -> content -> data of a response body is as         *)
(* expected when the body and the two nodes on the way are dicts and the   *)
(* innermost node is a list.                                               *)
(***************************************************************************)
HasDictAt(node, key) ==
    /\ node.t = "dict"
    /\ key \in DOMAIN node.d
    /\ node.d[key].t = "dict"

PathAsExpected(resp) ==
    /\ HasDictAt(resp, "data")
    /\ HasDictAt(resp.d.data, "content")
    /\ "data" \in DOMAIN resp.d.data.d.content.d
    /\ resp.d.data.d.content.d.data.t = "list"

\* C11: for every response in which a node on the path data -> content ->
\* data is missing, null or of another type than the expected dict or list
\* (the body itself included), parsing raises nothing and gives no rows.
C11_MalformedResponseGivesNoRows ==
    (pc = "tables" /\ ~PathAsExpected(response_json)) =>
        /\ raised = "none"
        /\ voyage_rows = <<>>
        /\ port_call_rows = <<>>

(***************************************************************************)
(* C12.  The top-level list of a response: Data, or data when Data is      *)
(* missing or falsy, of an MSC body; routings of a Maersk body.            *)
(***************************************************************************)
HasListAt(node, key) ==
    /\ node.t = "dict"
    /\ key \in DOMAIN node.d
    /\ node.d[key].t = "list"

MscHasTopLevelList == HasListAt(msc_response, "Data") \/ HasListAt(msc_response, "data")

MskHasTopLevelList == HasListAt(msk_response, "routings")

\* C12: the MSC voyage parser and the Maersk voyage and leg parsers raise
\* nothing, whatever the type of the nested nodes they read, and return an
\* empty list when the top-level list is absent or not a list.
C12_ParsersNeverRaise ==
    /\ msc_raised = "none"
    /\ msk_raised = "none"
    /\ (pc = "msc_voyages" /\ ~MscHasTopLevelList) => msc_voyage_rows = <<>>
    /\ (pc \in {"msk_voyages", "msk_legs"} /\ ~MskHasTopLevelList) =>
           (msk_voyage_rows = <<>> /\ msk_leg_rows = <<>>)

\* the part of C12 about the top-level list alone
TopLevelListMissingGivesNoRows ==
    /\ (pc \in {"msc_voyages", "msc_failed"} /\ ~MscHasTopLevelList) =>
           (msc_raised = "none" /\ msc_voyage_rows = <<>>)
    /\ (pc \in {"msk_voyages", "msk_legs", "msk_failed"} /\ ~MskHasTopLevelList) =>
           (msk_raised = "none" /\ msk_voyage_rows = <<>> /\ msk_leg_rows = <<>>)

(***************************************************************************)
(* C13.  The sailings of the MSC response, the number of routes of each    *)
(* and the place of its rows in the result, counted over the input.        *)
(***************************************************************************)
MscSailings == msc_response.d.Data.items

MscDictSailings == {n \in 1..Len(MscSailings) : MscSailings[n].t = "dict"}

\* the number of elements of the Routes list of the n-th sailing, 0 when
\* Routes is missing or no list
NumRoutes(n) ==
    IF HasListAt(MscSailings[n], "Routes") THEN Len(MscSailings[n].d.Routes.items) ELSE 0

\* max(1, number of routes)
RowsOfSailing(n) == IF NumRoutes(n) > 1 THEN NumRoutes(n) ELSE 1

\* the number of rows of the dict sailings before the n-th
RECURSIVE RowsBeforeSailing(_)
RowsBeforeSailing(n) ==
    IF n <= 1 THEN 0
    ELSE RowsBeforeSailing(n - 1)
         + (IF (n - 1) \in MscDictSailings THEN RowsOfSailing(n - 1) ELSE 0)

SailingLevelFields == DOMAIN MscBase(JDict(<<>>))

\* C13: each dict sailing with a non-empty Routes list gives one row per
\* route, in order, with RouteIndex the 1-based position of the route; any
\* other dict sailing gives one row with the sailing-level fields only and
\* no RouteIndex; sailings that are no dicts give no row, so that the number
\* of rows is the sum of max(1, number of routes) over the dict sailings.
C13_OneRowPerSailingRoute ==
    pc = "msc_voyages" =>
        /\ Len(msc_voyage_rows) = RowsBeforeSailing(Len(MscSailings) + 1)
        /\ \A n \in MscDictSailings :
              LET at == RowsBeforeSailing(n)
              IN  IF NumRoutes(n) = 0
                  THEN /\ DOMAIN msc_voyage_rows[at + 1] = SailingLevelFields
                       /\ msc_voyage_rows[at + 1].RouteHeaderId
                              = JGet(MscSailings[n], "RouteHeaderId")
                  ELSE \A k \in 1..NumRoutes(n) :
                          /\ "RouteIndex" \in DOMAIN msc_voyage_rows[at + k]
                          /\ msc_voyage_rows[at + k].RouteIndex = JNum(k)
                          /\ msc_voyage_rows[at + k].RouteHeaderId
                                 = JGet(MscSailings[n], "RouteHeaderId")

\* a sailing with two routes, the second no dict, followed by a sailing
\* without Routes: three rows
C13_Witness ==
    /\ pc = "msc_voyages"
    /\ Len(MscSailings) = 2
    /\ MscDictSailings = {1, 2}
    /\ NumRoutes(1) = 2
    /\ MscSailings[1].d.Routes.items[2].t # "dict"
    /\ NumRoutes(2) = 0
    /\ Len(msc_voyage_rows) = 3

(***************************************************************************)
(* C15.  What a row says, read off its cells position by position: the     *)
(* number its ID denotes and the calendar date its Origin ETD begins with. *)
(***************************************************************************)
HasKeyColumns == HasColumn(key_df, "ID") /\ HasColumn(key_df, "Origin ETD")

\* the identifier of the n-th row: the number written in its ID cell, -1
\* when the cell is empty
IdentifierOf(n) ==
    LET cell == key_df.rows[n]["ID"]
    IN  IF cell = None THEN -1 ELSE ParseNat(SelectSeq(cell, LAMBDA c : c # " "))

\* the Origin ETD cell of the n-th row begins with yyyy/mm/dd
IsDated(n) ==
    LET cell == key_df.rows[n]["Origin ETD"]
    IN  /\ cell # None
        /\ Len(cell) >= 10
        /\ cell[5] = "/"
        /\ cell[8] = "/"
        /\ \A k \in {1, 2, 3, 4, 6, 7, 9, 10} : \E j \in 0..9 : Digits[j + 1] = cell[k]

\* the departure date of a dated row
DepartureDateOf(n) ==
    LET cell == key_df.rows[n]["Origin ETD"]
    IN  [year |-> ParseNat(SubSeq(cell, 1, 4)), month |-> ParseNat(SubSeq(cell, 6, 7)),
         day |-> ParseNat(SubSeq(cell, 9, 10))]

\* C15: the key of a row is determined by its identifier and the date of its
\* departure: two rows with the same identifier and the same departure date
\* have equal keys, whatever the time of day or delay annotation that
\* follows the date in Origin ETD, and two rows that differ in identifier or
\* in departure date have different keys.
C15_KeyIsIdentifierAndDate ==
    (pc = "keys" /\ HasKeyColumns) =>
        /\ Len(row_keys) = Len(key_df.rows)
        /\ \A m, n \in 1..Len(key_df.rows) :
              /\ (/\ IdentifierOf(m) = IdentifierOf(n)
                  /\ IsDated(m) /\ IsDated(n)
                  /\ DepartureDateOf(m) = DepartureDateOf(n)) => row_keys[m] = row_keys[n]
              /\ (\/ IdentifierOf(m) # IdentifierOf(n)
                  \/ IsDated(m) # IsDated(n)
                  \/ (IsDated(m) /\ IsDated(n) /\ DepartureDateOf(m) # DepartureDateOf(n)))
                     => row_keys[m] # row_keys[n]

\* two rows of one route and one day, the second with a delay annotation
C15_Witness ==
    /\ pc = "keys"
    /\ HasKeyColumns
    /\ Len(key_df.rows) = 2
    /\ IdentifierOf(1) = 100 /\ IdentifierOf(2) = 100
    /\ key_df.rows[1]["Origin ETD"] = March7
    /\ key_df.rows[2]["Origin ETD"] = March7 \o Delay
    /\ row_keys[1] = row_keys[2]

(***************************************************************************)
(* C14.  Rows in fetch order, and what it is for the retained rows to be   *)
(* the first of every identity key.                                        *)
(***************************************************************************)
\* the identity key of one row of the result table
KeyOfRow(row) == make_unique_key([columns |-> ScheduleColumns, rows |-> <<row>>])[1]

RECURSIVE RowsOfFrames(_)
RowsOfFrames(frames) ==
    IF frames = <<>> THEN <<>> ELSE frames[1].rows \o RowsOfFrames(Tail(frames))

\* the pages fetch_all_pages has read so far: the site shows the pages of
\* the query one after another, the first again after the last
PagesRead ==
    [k \in 1..Len(dfs) |-> site[route_idx][((k - 1) % Len(site[route_idx])) + 1]]

\* no two retained rows have one key, every key fetched is retained, and
\* every retained row is the first fetched row of its key
FirstOfEveryKey(retained, fetched) ==
    /\ \A m, n \in 1..Len(retained) :
          m # n => KeyOfRow(retained[m]) # KeyOfRow(retained[n])
    /\ \A k \in 1..Len(fetched) :
          \E m \in 1..Len(retained) : KeyOfRow(retained[m]) = KeyOfRow(fetched[k])
    /\ \A m \in 1..Len(retained) :
          \E k \in 1..Len(fetched) :
              /\ fetched[k] = retained[m]
              /\ \A j \in 1..(k - 1) : KeyOfRow(fetched[j]) # KeyOfRow(fetched[k])

\* C14: after the merge across the pages of a query and after the merge
\* across the queries, no two retained rows have equal identity keys, every
\* key among the fetched rows is retained exactly once, and the retained row
\* of a key is the first row with that key in fetch order, fields and all.
C14_FirstRowOfEveryKeyRetained ==
    /\ pc = "fetched" => FirstOfEveryKey(FetchedFrame(dfs).rows, RowsOfFrames(PagesRead))
    /\ pc = "merged" => FirstOfEveryKey(detail_df.rows, RowsOfFrames(all_details))

\* the first query shows the sailing of 7 March on both of its pages, the
\* second query shows it with other cells: the first row read stays
C14_Witness ==
    /\ pc = "merged"
    /\ Len(all_details) = 2
    /\ Len(all_details[1].rows) = 1
    /\ Len(all_details[2].rows) = 1
    /\ KeyOfRow(all_details[2].rows[1]) = KeyOfRow(all_details[1].rows[1])
    /\ all_details[2].rows[1] # all_details[1].rows[1]
    /\ detail_df.rows = <<all_details[1].rows[1]>>
    /\ Len(site[1]) = 2
    /\ Len(site[1][1].rows) = 1
    /\ Len(site[1][2].rows) = 1

(***************************************************************************)
(* C16.  What a scraped row says, read off its cells: the route its ID      *)
(* names, the day it departs, the week of the calendar that day lies in,   *)
(* and its capacity.                                                       *)
(***************************************************************************)
IsDigitChar(c) == \E j \in 0..9 : Digits[j + 1] = c

\* the route the row names: the number its ID cell spells, -1 for a cell
\* that spells none
RouteOfRow(row) ==
    LET cell == row["ID"]
    IN  IF cell = None \/ \A k \in 1..Len(cell) : ~IsDigitChar(cell[k]) THEN -1
        ELSE ParseNat(SelectSeq(cell, IsDigitChar))

\* the Origin ETD cell begins with yyyy/mm/dd
RowIsDated(row) ==
    LET cell == row["Origin ETD"]
    IN  /\ cell # None
        /\ Len(cell) >= 10
        /\ cell[5] = "/"
        /\ cell[8] = "/"
        /\ \A k \in {1, 2, 3, 4, 6, 7, 9, 10} : IsDigitChar(cell[k])

DateOfRow(row) ==
    LET cell == row["Origin ETD"]
    IN  [year |-> ParseNat(SubSeq(cell, 1, 4)), month |-> ParseNat(SubSeq(cell, 6, 7)),
         day |-> ParseNat(SubSeq(cell, 9, 10))]

\* the day lies in business week w: the seven days from the Saturday that
\* is 7 * (w - 1) days after WEEK1_START
InWeek(dt, w) ==
    /\ DateLE(CalendarShift(WEEK1_START, 7 * (w - 1)), dt)
    /\ DateLE(dt, CalendarShift(WEEK1_START, 7 * (w - 1) + 6))

CapacityOfRow(row) ==
    LET cell == row["Capacity"]
    IN  IF cell = None THEN 0 ELSE ParseNat(SelectSeq(cell, IsDigitChar))

\* the capacity the first n rows of detail_df offer on route id in week w
RECURSIVE OfferedCapacity(_, _, _)
OfferedCapacity(id, w, n) ==
    IF n = 0 THEN 0
    ELSE LET row == detail_df.rows[n]
         IN  OfferedCapacity(id, w, n - 1)
             + (IF RouteOfRow(row) = id /\ RowIsDated(row) /\ InWeek(DateOfRow(row), w)
                THEN CapacityOfRow(row) ELSE 0)

Summarized == pc \in {"summarized", "written"}

\* C16: summarize_capacity raises nothing on rows that have the needed
\* columns, and in the matrix it returns the cell of roster row r and week
\* column w is the sum of the capacities of exactly the scraped rows whose ID
\* names the route of r and whose departure day lies in week
\* start_week_no + w; rows whose ID names no route of the roster, or no
\* number at all, add to no cell.
C16_CellIsSumOfMatchingRows ==
    /\ sum_raised = "none"
    /\ Summarized =>
          /\ Len(result_df.cells) = Len(routes_df.rows)
          /\ \A r \in 1..Len(routes_df.rows) :
                /\ Len(result_df.cells[r]) = Len(cols)
                /\ \A w \in 1..Len(cols) :
                      result_df.cells[r][w] =
                          OfferedCapacity(routes_df.rows[r]["ID"], start_week_no + w - 1,
                                          Len(detail_df.rows))

\* roster route 100 with rows of 200 and 150 in the first week and a row of
\* route 999: the cell is 350
C16_Witness ==
    /\ Summarized
    /\ routes_df = UniqueRoster
    /\ detail_df.rows = <<ScheduleRow(Chars100, March7, Chars200),
                          ScheduleRow(Chars100, March13 \o Delay, Chars150),
                          ScheduleRow(Chars999, March7, Chars200)>>
    /\ result_df.cells[1][1] = 350
    /\ \A r \in 1..Len(routes_df.rows), w \in 1..Len(cols) :
          (r # 1 \/ w # 1) => result_df.cells[r][w] = 0

(***************************************************************************)
(* C17.  The window of the matrix: the weeks start_week_no to              *)
(* start_week_no + Len(cols) - 1.                                          *)
(***************************************************************************)
WindowWeeks == start_week_no..(start_week_no + Len(cols) - 1)

\* the row departs in a week of the window
DepartsInWindow(row) ==
    RowIsDated(row) /\ \E w \in WindowWeeks : InWeek(DateOfRow(row), w)

\* the capacity the first n rows of detail_df offer on route id within the window
RECURSIVE WindowCapacity(_, _)
WindowCapacity(id, n) ==
    IF n = 0 THEN 0
    ELSE LET row == detail_df.rows[n]
         IN  WindowCapacity(id, n - 1)
             + (IF RouteOfRow(row) = id /\ DepartsInWindow(row) THEN CapacityOfRow(row) ELSE 0)

\* the sum of the first n cells of a matrix row
RECURSIVE RowTotal(_, _)
RowTotal(cells, n) == IF n = 0 THEN 0 ELSE RowTotal(cells, n - 1) + cells[n]

\* C17: a row is counted only if its week lies in the window: every write
\* of the write-back loop addresses a week column index in
\* 0..Len(week_cols) - 1 and none raises; in the matrix the cells of the
\* first and of the last window week hold the capacity offered in those
\* weeks, and the cells of a route add up to the capacity its rows offer
\* within the window, so that rows of the week before the window or of the
\* week after it add to no cell.
C17_OnlyWindowWeeksCounted ==
    /\ sum_raised # "IndexError"
    /\ \A g \in 1..Len(g_cap) : g_cap[g].week_idx \in 0..(Len(cols) - 1)
    /\ Summarized =>
          \A r \in 1..Len(routes_df.rows) :
              LET id == routes_df.rows[r]["ID"]
                  n == Len(detail_df.rows)
                  last == Len(cols)
              IN  /\ result_df.cells[r][1] = OfferedCapacity(id, start_week_no, n)
                  /\ result_df.cells[r][last] =
                         OfferedCapacity(id, start_week_no + last - 1, n)
                  /\ RowTotal(result_df.cells[r], last) = WindowCapacity(id, n)

\* a row of route 100 on the first day of the window, one of route 200 on
\* its last day and one of route 100 on the day after it: the first two are
\* counted, the third is not
C17_Witness ==
    /\ Summarized
    /\ routes_df = UniqueRoster
    /\ detail_df.rows = <<ScheduleRow(Chars100, March7, Chars200),
                          ScheduleRow(Chars200, March20, Chars80),
                          ScheduleRow(Chars100, March21, Chars200)>>
    /\ ~DepartsInWindow(detail_df.rows[3])
    /\ Len(g_cap) = 2
    /\ result_df.cells[1] = <<200, 0>>
    /\ result_df.cells[2] = <<0, 80>>

(***************************************************************************)
(* C18.  The shape of the matrix a run writes.                             *)
(***************************************************************************)
\* the matrix has one row per roster entry in roster order, the columns
\* route name, ID and the week columns, and zero in every cell of a route
\* that no scraped row names
MatrixOverRoster ==
    /\ result_df.columns = <<"route_name", "ID">>
    /\ result_df.week_cols = cols
    /\ Len(result_df.rows) = Len(routes_df.rows)
    /\ Len(result_df.cells) = Len(routes_df.rows)
    /\ \A r \in 1..Len(routes_df.rows) :
          /\ result_df.rows[r]["route_name"] = routes_df.rows[r]["route_name"]
          /\ result_df.rows[r]["ID"] = routes_df.rows[r]["ID"]
          /\ Len(result_df.cells[r]) = Len(cols)
          /\ (\A n \in 1..Len(detail_df.rows) :
                 RouteOfRow(detail_df.rows[n]) # routes_df.rows[r]["ID"])
             => \A w \in 1..Len(cols) : result_df.cells[r][w] = 0

\* C18: a run that gets past the route loop yields the matrix: main's call
\* of summarize_capacity raises nothing, also when no query returned a row,
\* and the matrix it returns has one row per roster entry in roster order
\* with the columns route name, ID and the week columns, all zero for routes
\* without matching rows.
C18_RunAlwaysYieldsMatrix ==
    /\ sum_raised = "none"
    /\ Summarized => MatrixOverRoster

\* a run in which some query returned rows yields the matrix
RunWithRowsYieldsMatrix ==
    /\ all_details # <<>> => sum_raised = "none"
    /\ Summarized => MatrixOverRoster

\* the run in which no query returned a row ends in summarize_capacity
NoRowsRunFails ==
    (all_details = <<>> /\ pc \notin {"main_loop", "merged"})
        => (pc = "failed" /\ sum_raised = "KeyError")

(***************************************************************************)
(* C19.  The ByConsortium table against the ByRoute matrix.                *)
(***************************************************************************)
\* the consortium tags the roster rows carry
RosterTags == {routes_df.rows[r]["consortium"] : r \in 1..Len(routes_df.rows)}

\* the sum of the ByRoute cells of week column w over the first n roster
\* rows that carry the tag
RECURSIVE RouteCellsOfTag(_, _, _)
RouteCellsOfTag(tag, w, n) ==
    IF n = 0 THEN 0
    ELSE RouteCellsOfTag(tag, w, n - 1)
         + (IF routes_df.rows[n]["consortium"] = tag THEN result_df.cells[n][w] ELSE 0)

\* the sum of week column w over the first n rows of a table
RECURSIVE ColumnTotal(_, _, _)
ColumnTotal(cells, w, n) ==
    IF n = 0 THEN 0 ELSE ColumnTotal(cells, w, n - 1) + cells[n][w]

\* the cells of every row of the table are the sums of the ByRoute cells of
\* the routes that carry its tag
ConsortiumCellsAreRouteSums ==
    \A g \in 1..Len(consortium_df.rows) : \A w \in 1..Len(cols) :
        consortium_df.cells[g][w] =
            RouteCellsOfTag(consortium_df.rows[g]["consortium"], w, Len(routes_df.rows))

\* the table has one row for every tag of the roster and no other row
OneRowPerRosterTag ==
    /\ \A g \in 1..Len(consortium_df.rows) : consortium_df.rows[g]["consortium"] \in RosterTags
    /\ \A tag \in RosterTags :
          Cardinality({g \in 1..Len(consortium_df.rows) :
                          consortium_df.rows[g]["consortium"] = tag}) = 1

\* per week column the consortium rows and the route rows have one total
ConsortiumTotalsAreRouteTotals ==
    \A w \in 1..Len(cols) :
        ColumnTotal(consortium_df.cells, w, Len(consortium_df.rows))
            = ColumnTotal(result_df.cells, w, Len(result_df.rows))

\* C19: for a roster with a consortium column, every cell (tag, week) of the
\* ByConsortium table is the sum of the ByRoute cells of that week over the
\* roster routes that carry the tag, and per week column the total over the
\* consortium rows equals the total over the route rows.
C19_ConsortiumIsSumOfItsRoutes ==
    pc = "written" => ConsortiumCellsAreRouteSums /\ ConsortiumTotalsAreRouteTotals

\* the roster IDs are pairwise different
RosterIdsUnique ==
    \A r, q \in 1..Len(routes_df.rows) :
        routes_df.rows[r]["ID"] = routes_df.rows[q]["ID"] => r = q

\* with pairwise different roster IDs the table is the sum of its routes
UniqueIdsConsortiumIsSumOfItsRoutes ==
    (pc = "written" /\ RosterIdsUnique) => ConsortiumCellsAreRouteSums /\ OneRowPerRosterTag

\* the totals agree for every roster
TotalsAgreeForEveryRoster == pc = "written" => ConsortiumTotalsAreRouteTotals

(***************************************************************************)
(* C20.  summarize_capacity and its arguments.                             *)
(***************************************************************************)
\* C20: summarize_capacity is pure: no step of it changes the table of
\* scraped rows or the roster it was given, and a second call with the same
\* arguments returns the matrix the first call returned.
C20_SummarizeIsPure ==
    /\ [][detail_df' = detail_df /\ routes_df' = routes_df]_vars
    /\ []((pc = "summarized" /\ summaries >= 2) => result_df = prev_result_df)

\* the second call has returned the matrix of the example: 350 for route 100
\* in the first week, written to a table of its own
C20_Witness ==
    /\ pc = "summarized"
    /\ summaries = 2
    /\ Len(detail_df.rows) = 3
    /\ result_df.cells[1][1] = 350
    /\ result_df = prev_result_df
    /\ out.cells[1][1] = 350
    /\ routes_df = UniqueRoster

(***************************************************************************)
(* C28, C29.  The identity and the Direction tag of the rows parse_tables  *)
(* emits.                                                                  *)
(***************************************************************************)
\* (LoopAbbrv, VesselCode, VesselName, Voyage) of an emitted row
OutputIdentity(row) == <<row.LoopAbbrv, row.VesselCode, row.VesselName, row.Voyage>>

VoyageRowsHaveOwnIdentity ==
    \A a, b \in 1..Len(voyage_rows) :
        a # b => OutputIdentity(voyage_rows[a]) # OutputIdentity(voyage_rows[b])

PortCallRowsHaveOwnIdentity ==
    \A a, b \in 1..Len(port_call_rows) :
        a # b => <<OutputIdentity(port_call_rows[a]), port_call_rows[a].PortCallSeq>>
                 # <<OutputIdentity(port_call_rows[b]), port_call_rows[b].PortCallSeq>>

\* C28: no two voyage rows emitted for one response share the output identity
\* (LoopAbbrv, VesselCode, VesselName, Voyage), and no two port-call rows
\* share that identity together with PortCallSeq, also when the raw voy
\* strings of two groups differ only outside the westbound code.
C28_OutputIdentityIsUnique ==
    pc = "tables" => VoyageRowsHaveOwnIdentity /\ PortCallRowsHaveOwnIdentity

\* the raw voy strings of the records have pairwise different westbound codes
WestboundCodesDistinct ==
    \A a, b \in DictIdx :
        extract_westbound_voyage(RefKey(a)[4]) = extract_westbound_voyage(RefKey(b)[4])
            => RefKey(a)[4] = RefKey(b)[4]

\* the identity is unique as long as no two raw voy strings share a westbound code
IdentityUniqueForDistinctWestboundCodes ==
    (pc = "tables" /\ WestboundCodesDistinct)
        => VoyageRowsHaveOwnIdentity /\ PortCallRowsHaveOwnIdentity

\* two groups of one vessel whose raw voy strings share the westbound code
\* give two voyage rows with one identity
TwoGroupsOneIdentity ==
    /\ pc = "tables"
    /\ Len(voyage_rows) = 2
    /\ OutputIdentity(voyage_rows[1]) = OutputIdentity(voyage_rows[2])
    /\ Len(port_call_rows) = 2
    /\ port_call_rows[1].PortCallSeq = port_call_rows[2].PortCallSeq

\* C29: every port-call row emitted by parse_tables carries the Direction tag
\* of its voyage row, W, whether or not the service has a rule.
C29_PortCallRowsCarryDirection ==
    pc = "tables" =>
        \A k \in 1..Len(port_call_rows) :
            /\ "Direction" \in DOMAIN port_call_rows[k]
            /\ port_call_rows[k].Direction = <<"W">>

\* every voyage row is tagged W, and so are the port-call rows of a service
\* that has a rule
RuledRowsCarryDirection ==
    pc = "tables" =>
        /\ \A m \in 1..Len(voyage_rows) : voyage_rows[m].Direction = <<"W">>
        /\ \A k \in 1..Len(port_call_rows) :
              RuleOf(load_service_rules(rules_table),
                     normalize_port_name(port_call_rows[k].LoopAbbrv)) # [start |-> None, end |-> None]
                  => /\ "Direction" \in DOMAIN port_call_rows[k]
                     /\ port_call_rows[k].Direction = <<"W">>

\* the port-call rows of a service without a rule have no Direction key
UnruledRowsLackDirection ==
    pc = "tables" =>
        \A k \in 1..Len(port_call_rows) :
            RuleOf(load_service_rules(rules_table),
                   normalize_port_name(port_call_rows[k].LoopAbbrv)) = [start |-> None, end |-> None]
                => "Direction" \notin DOMAIN port_call_rows[k]

(***************************************************************************)
(* C23.  fetch_all_pages on a result set whose next link wraps around.     *)
(***************************************************************************)
\* the loop of fetch_all_pages has extracted every page of the query at most
\* once, and it is not about to extract another page once it has extracted
\* them all
ExtractsEachPageOnce ==
    /\ pc \in {"fetch", "fetched"} => Len(dfs) <= Len(site[route_idx])
    /\ pc = "fetch" => Len(dfs) < Len(site[route_idx])

\* C23: on a result set of N >= 1 pages whose next link is clickable on every
\* page and leads from the last page back to page 1, fetch_all_pages extracts
\* each page once and stops when the page number has returned to 1, also for
\* N = 1.
C23_WrapAroundStopsAfterLastPage == ExtractsEachPageOnce

\* with two pages or more the loop stops when the page number returns to 1
MultiPageStopsAfterLastPage ==
    (pc \in {"fetch", "fetched"} /\ Len(site[route_idx]) >= 2) => ExtractsEachPageOnce

\* a result set of one page: the click leaves the page number at 1, the stop
\* test "current_page != 1 and new_page == 1" is false and the page is
\* extracted again
SinglePageExtractedAgain ==
    /\ pc = "fetch"
    /\ Len(site[route_idx]) = 1
    /\ site_page = 1
    /\ Len(dfs) = 2

(***************************************************************************)
(* C21.  The roster load_routes returns.                                   *)
(***************************************************************************)
\* the text of an ID cell is an integer: digits after an optional sign
ReadsAsInteger(text) ==
    LET body == Strip(text)
        digits == IF body # <<>> /\ body[1] \in {"+", "-"} THEN Tail(body) ELSE body
    IN  digits # <<>> /\ \A k \in 1..Len(digits) : \E n \in 0..9 : Digits[n + 1] = digits[k]

\* the rows of the sheet that have a name and an ID that reads as an integer
SheetRowsWithIntegerId ==
    {r \in 1..Len(template_df.rows) :
        /\ template_df.rows[r][1].t # "nan"
        /\ template_df.rows[r][2].t # "nan"
        /\ ReadsAsInteger(PyStr(template_df.rows[r][2]))}

\* the roster holds the rows of the sheet whose ID reads as an integer, one
\* entry for each, and every entry has that integer as its ID
OnlyIntegerIdsRemain ==
    /\ Len(routes_df.rows) = Cardinality(SheetRowsWithIntegerId)
    /\ \A k \in 1..Len(routes_df.rows) :
          /\ routes_df.rows[k]["ID"] \in Int
          /\ \E r \in SheetRowsWithIntegerId :
                routes_df.rows[k]["ID"] = ParseInt(Strip(PyStr(template_df.rows[r][2])))

RosterIdsPairwiseDifferent ==
    \A a, b \in 1..Len(routes_df.rows) :
        a # b => routes_df.rows[a]["ID"] # routes_df.rows[b]["ID"]

\* C21: after load_routes the entries whose ID is missing or does not parse
\* to an integer are gone, every remaining entry has an integer ID, and no
\* two remaining entries have the same ID.
C21_RosterIdsAreUniqueIntegers ==
    (pc = "loaded" /\ load_raised = "none")
        => OnlyIntegerIdsRemain /\ RosterIdsPairwiseDifferent

\* the entries without an integer ID are discarded and the others have one
MissingAndUnparsableIdsDiscarded ==
    (pc = "loaded" /\ load_raised = "none") => OnlyIntegerIdsRemain

\* the ID 100 written as a number on one row and as a text on another: both
\* rows are on the roster, with the same ID
SameIdOnTwoRosterRows ==
    /\ pc = "loaded"
    /\ load_raised = "none"
    /\ Len(template_df.rows) = 3
    /\ template_df.rows[1][2] = IntCell(100)
    /\ template_df.rows[2][2] = StrCell(Chars100)
    /\ template_df.rows[3][2].t = "str"
    /\ ~ReadsAsInteger(template_df.rows[3][2].s)
    /\ Len(routes_df.rows) = 2
    /\ routes_df.rows[1]["ID"] = 100
    /\ routes_df.rows[2]["ID"] = 100

(***************************************************************************)
(* C24.  The chunks of iter_week_chunks.                                   *)
(***************************************************************************)
\* 9 February 2026, a Monday
AMonday == [year |-> 2026, month |-> 2, day |-> 9]

IsMonday(dt) == \E k \in 0..MaxChunkSpan : CalendarShift(AMonday, 7 * k) = dt

IsSunday(dt) == \E k \in 0..MaxChunkSpan : CalendarShift(AMonday, 7 * k - 1) = dt

\* the chunks cover [start, end] without gap or overlap, week by week
ChunksPartitionRange ==
    /\ Len(chunks) >= 1
    /\ chunks[1].from = ez_start
    /\ chunks[Len(chunks)].to = ez_end
    /\ \A k \in 1..Len(chunks) :
          /\ DateLE(chunks[k].from, chunks[k].to)
          /\ DateLE(chunks[k].to, CalendarShift(chunks[k].from, 6))
          /\ k < Len(chunks) =>
                /\ chunks[k + 1].from = CalendarShift(chunks[k].to, 1)
                /\ IsSunday(chunks[k].to)
          /\ k > 1 => IsMonday(chunks[k].from)

\* C24: for start <= end iter_week_chunks yields finitely many chunks that
\* partition [start, end]: the first starts at start, the last ends at end,
\* each next chunk starts the day after the one before it ends, every chunk
\* but the last ends on a Sunday, every chunk but the first starts on a
\* Monday and no chunk has more than 7 days; for end < start it raises
\* ValueError and yields no chunk.
C24_WeekChunksPartitionRange ==
    (ez_start # NoDate /\ ez_end # NoDate) =>
        /\ Len(chunks) <= MaxChunkSpan + 1
        /\ pc = "chunks_done" =>
              IF DateLE(ez_start, ez_end)
              THEN ez_raised = "none" /\ ChunksPartitionRange
              ELSE ez_raised = "ValueError" /\ chunks = <<>>

\* Tuesday 10 February to Thursday 26 February: a short first chunk, a full
\* week and a short last chunk
C24_Witness ==
    /\ pc = "chunks_done"
    /\ ez_start = ChunkOrigin
    /\ ez_end = [year |-> 2026, month |-> 2, day |-> 26]
    /\ chunks = <<Chunk(ChunkOrigin, [year |-> 2026, month |-> 2, day |-> 15]),
                  Chunk([year |-> 2026, month |-> 2, day |-> 16],
                        [year |-> 2026, month |-> 2, day |-> 22]),
                  Chunk([year |-> 2026, month |-> 2, day |-> 23],
                        [year |-> 2026, month |-> 2, day |-> 26])>>

\* the end before the start: ValueError before the first chunk
EndBeforeStartRaises ==
    /\ pc = "chunks_done"
    /\ ez_start = [year |-> 2026, month |-> 2, day |-> 26]
    /\ ez_end = ChunkOrigin
    /\ ez_raised = "ValueError"
    /\ chunks = <<>>

(***************************************************************************)
(* C25.  The pages scrape_current_query collects.                          *)
(***************************************************************************)
PageNumbersIncrease ==
    \A a, b \in 1..Len(page_log) : a < b => page_log[a] < page_log[b]

\* the rows collected are those of the pages collected, page by page
RowsAreOfCollectedPages ==
    /\ Len(all_rows) = Len(page_log)
    /\ \A k \in 1..Len(all_rows) : all_rows[k].page = page_log[k]

\* C25: the page numbers of the pages scrape_current_query collects one after
\* another increase strictly, so no page is collected twice; the loop ends
\* with the round in which no further page is collected, in particular when
\* a click on "next page" does not advance the page number; with
\* MAX_PAGES = m > 0 the rows of at most m pages are collected, and
\* MAX_PAGES = 0 sets no limit.
C25_PagesIncreaseWithinLimit ==
    /\ [](/\ PageNumbersIncrease
          /\ RowsAreOfCollectedPages
          /\ max_pages > 0 => Len(page_log) <= max_pages)
    /\ [][(pc = "scrape_loop" /\ page_log' = page_log) => pc' # "scrape_loop"]_vars

\* MAX_PAGES = 2 on a query of four pages, the click leading from page 1 to
\* page 3: the loop stops after the second page collected
C25_Witness ==
    /\ pc = "scraped"
    /\ max_pages = 2
    /\ site_pages = 4
    /\ page_log = <<1, 3>>
    /\ all_rows = <<SiteRow(NoChunk, 1), SiteRow(NoChunk, 3)>>

\* MAX_PAGES = 0: all four pages are collected
NoLimitCollectsEveryPage ==
    /\ pc = "scraped"
    /\ max_pages = 0
    /\ site_pages = 4
    /\ page_log = <<1, 2, 3, 4>>

\* a click that leaves the page number where it was ends the loop
ClickWithoutAdvanceEndsLoop ==
    /\ pc = "scraped"
    /\ max_pages = 0
    /\ ~pagination_info
    /\ site_pages = 4
    /\ now_page = 2
    /\ page_log = <<1, 2>>

(***************************************************************************)
(* C27.  The date filter of a chunk and the rows merged for it.            *)
(***************************************************************************)
YieldedChunks == {chunks[j] : j \in 1..Len(chunks)}

\* C27: the rows of a date chunk are scraped and appended to merged_rows only
\* after set_date_range_filters has applied the chunk's DATE FROM / DATE TO
\* filter; for a chunk whose filter was reported as not applied no rows are
\* merged, so every merged row of a dated run was read under the filter of
\* one of the chunks.
C27_RowsMergedOnlyUnderChunkFilter ==
    /\ (pc \in {"scrape", "scrape_loop", "scraped"} /\ chunk # NoChunk) => applied
    /\ (ez_start # NoDate /\ ez_end # NoDate) =>
          \A k \in 1..Len(merged_rows) : merged_rows[k].filter \in YieldedChunks

\* the rows scraped after a filter was applied are read under that filter
AppliedChunkRowsCarryItsFilter ==
    (pc \in {"scrape", "scrape_loop", "scraped"} /\ chunk # NoChunk /\ applied) =>
        /\ site_filter = chunk
        /\ pc # "scrape" => \A k \in 1..Len(all_rows) : all_rows[k].filter = chunk

\* set_date_range_filters returned False for both chunks of the run: the
\* unfiltered first page is in merged_rows once for each chunk
UnfilteredListMergedPerChunk ==
    /\ pc = "ez_written"
    /\ Len(chunks) = 2
    /\ ~applied
    /\ merged_rows = <<SiteRow(NoChunk, 1), SiteRow(NoChunk, 1)>>

(***************************************************************************)
(* C26.  The route loop of demo_v3 main when a query fails.                *)
(***************************************************************************)
\* every row of the frame names the route with the given ID
FrameIsOfRoute(frame, id) ==
    \A k \in 1..Len(frame.rows) : RouteOfRow(frame.rows[k]) = id

\* the step is the except clause of the loop: the query of route_idx was
\* under way or about to start and the loop is back at its head
QueryFailed == pc \in {"main_loop", "fetch"} /\ pc' = "main_loop"

EarlierRowsKeptAfterFailure ==
    /\ pc = "merged"
    /\ routes_df = LoopRoster
    /\ Len(site[2][1].rows) = 1
    /\ RouteOfRow(site[2][1].rows[1]) = 200
    /\ Len(all_details) = 1
    /\ RouteOfRow(all_details[1].rows[1]) = 100

(***************************************************************************)
(* C22, C30.  The COSCO run: services without a rule, and the browser.     *)
(***************************************************************************)
\* the service the run was asked for
RequestedService ==
    IF argv = None \/ \A k \in 1..Len(argv) : argv[k] = " " THEN AEU1 ELSE Upper(Strip(argv))

PrefixSupported ==
    /\ Len(RequestedService) >= 3
    /\ SubSeq(RequestedService, 1, 3) \in {<<"A", "E", "U">>, <<"A", "E", "M">>}

\* the cell holds a text that is not blank
CellFilled(cell) == cell # None /\ \E k \in 1..Len(cell) : cell[k] # " "

\* a row of the rule table names the service, a start port and an end port
HasServiceRule ==
    \E k \in 1..Len(rules_table) :
        /\ CellFilled(rules_table[k].SERVICE)
        /\ CellFilled(rules_table[k].START)
        /\ CellFilled(rules_table[k].END)
        /\ Upper(Strip(rules_table[k].SERVICE)) = RequestedService

UnsupportedPrefixFails ==
    /\ pc = "cos_exit"
    /\ argv = <<"M", "E", "X", "1">>
    /\ cos_raised = "ValueError"
    /\ browser = "none"

\* fetch_response_json has been left, by a return or by an exception
FetchLeft == pc \in {"cos_exit", "cos_returned", "cos_done"}

\* a response reaches main only from a try block that ran to its end, and an
\* exit without a response carries an exception
ResponseOnlyAfterEveryStep ==
    /\ response_json # NoResponse =>
          (cos_step = Len(TrySteps) /\ pending = "none" /\ response_json = captured)
    /\ pc \in {"cos_returned", "cos_done"} => cos_step = Len(TrySteps)
    /\ pc = "cos_exit" => cos_raised # "none"

TryBlockExitsCloseBrowser ==
    /\ (FetchLeft /\ cos_step >= 1) => browser = "closed"
    /\ ResponseOnlyAfterEveryStep

\* new_context, apply_stealth_async or new_page raised: the exception has
\* left fetch_response_json and browser.close() was not called
SetupFailureLeavesBrowserOpen ==
    /\ pc = "cos_exit"
    /\ cos_step = 0
    /\ browser = "launched"
    /\ cos_raised = "Error"

\* a timeout in open_search_page whose handler failed to save the artifacts:
\* the browser is closed and the handler's exception is raised
HandlerFailureClosesBrowser ==
    /\ pc = "cos_exit"
    /\ cos_step = 2
    /\ pending = "Error"
    /\ cos_raised = "Error"
    /\ browser = "closed"

====
